---- MODULE Spec2Model ----
(***************************************************************************)
(* Webhook ingestion, tenant resolution and message-store pipeline of the  *)
(* dental-clinic WhatsApp bot (webhookController.ts, wasenderService.ts).  *)
(*                                                                         *)
(* Every `await` of a handler is a point where other requests may run, so  *)
(* one request is a small process whose steps are the code between two     *)
(* awaits.  JavaScript `undefined` is the string Undefined for string      *)
(* fields, a FALSE presence flag for objects and the empty sequence for    *)
(* optional numbers and optional objects.                                  *)
(***************************************************************************)
EXTENDS Integers, Sequences, FiniteSets, TLC

VARIABLES
    sessions,   \* WhatsappSession table, rows in insertion order
    users,      \* User table joined with its ClinicSetting: userId -> row
    accounts,   \* User table as register writes it, rows in insertion order
    clinicSetting, \* ClinicSetting table as register writes it
    client,     \* the transport's shared HTTP client: its default headers
    messages,   \* Message table, rows in insertion order
    outbox,     \* calls that reached the transport, each with the request it is by
    pc,         \* per request: the await it is suspended at
    ev,         \* per request: headers and body of the HTTP request
    lookup,     \* per request: "none", then how findFirst answered
    sess,       \* per request: the session findFirst returned, <<>> is null
    resp,       \* per request: HTTP status sent, 0 while unanswered
    handlers,   \* per request: handlers the switch has called, in order
    verified,   \* per request: results of verifyWebhookSignature, in order
    writes,     \* per request: ids of the Message rows it created or updated
    call,       \* unit harness: arguments of a direct call of a pure function
    ret         \* unit harness: <<>> before the call, <<result>> after

vars == <<sessions, users, accounts, clinicSetting, client, messages, outbox, pc, ev, lookup, sess, resp,
          handlers, verified, writes, call, ret>>

----------------------------------------------------------------------------
\* Bounds of the model.

MaxMsgs == 2        \* rows the Message table may hold
MaxCode == 6        \* numeric status codes 0..MaxCode are sent, and 99
MaxCalls == 2       \* direct calls of a function on the same arguments

\* The requests in flight: the provider's events are taken one after another.
Reqs == {1}

----------------------------------------------------------------------------
\* JavaScript values.

Undefined == "undefined"

Falsy(s) == s = Undefined \/ s = ""

Truthy(s) == ~Falsy(s)

\* obj.name of a record: <<>> when the object has no such property.
Prop(obj, name) == IF name \in DOMAIN obj THEN <<obj[name]>> ELSE <<>>

\* The enum MessageStatus.
ERROR == 0
PENDING == 1
SENT == 2
DELIVERED == 3
READ == 4
PLAYED == 5

\* axios.create({ baseURL, headers }): a client without an Authorization
\* header among its defaults.
NoClient == [authorization |-> Undefined]

----------------------------------------------------------------------------
\* The store.

MessageId(n) == "m" \o ToString(n)

\* String.prototype.startsWith('ar') on the language preferences in use.
StartsWithAr(s) == s \in {"ar", "arabic", "ar-SA"}

InitUsers ==
    [u \in {"u1", "u2"} |->
        [id |-> u,
         languagePreference |-> IF u = "u1" THEN "bilingual" ELSE "ar",
         clinicAddress |-> IF u = "u1" THEN "1 Main St" ELSE Undefined,
         clinicPhone |-> IF u = "u1" THEN "+100" ELSE Undefined,
         currency |-> IF u = "u1" THEN "USD" ELSE Undefined,
         clinicSettings |->
            [userId |-> u,
             greetingMessageEn |-> "Hello!",
             greetingMessageAr |-> "marhaban",
             workingHours |-> Undefined,
             services |-> <<>>,
             customKeywords |-> <<>>]]]

InitSessions ==
    << [id |-> "s1", userId |-> "u1", sessionId |-> "101", apiKey |-> "key1",
        webhookSecret |-> "sec1", phoneNumber |-> "+111", status |-> "connected"],
       [id |-> "s2", userId |-> "u2", sessionId |-> "102", apiKey |-> "key2",
        webhookSecret |-> "sec2", phoneNumber |-> "+222", status |-> "connected"] >>

\* The row with its `include: { user: { include: { clinicSettings } } }`.
JoinUser(row, userTable) ==
    [id |-> row.id, userId |-> row.userId, sessionId |-> row.sessionId,
     apiKey |-> row.apiKey, webhookSecret |-> row.webhookSecret,
     phoneNumber |-> row.phoneNumber, status |-> row.status,
     user |-> userTable[row.userId]]

\* findFirst without its where clause: the first row, whatever the signature.
FindFirstAnySession(table, userTable, signature) ==
    IF Len(table) = 0 THEN <<>> ELSE <<JoinUser(table[1], userTable)>>

\* prisma.whatsappSession.findFirst({ where: { webhookSecret: signature } }):
\* the first matching row, <<>> for null.  A where-value of undefined is no
\* filter at all.
FindFirstSession(table, userTable, signature) ==
    LET hits == {i \in 1..Len(table) :
                    signature = Undefined \/ table[i].webhookSecret = signature}
    IN  IF hits = {} THEN <<>>
        ELSE <<JoinUser(table[CHOOSE i \in hits : \A j \in hits : i <= j], userTable)>>

\* prisma.message.updateMany with an id filter and a session filter; a filter
\* whose value is undefined is dropped.
MatchesId(row, sessionId, id) ==
    /\ row.whatsappSessionId = sessionId
    /\ (id = Undefined \/ row.id = id)

----------------------------------------------------------------------------
\* wasenderService.verifyWebhookSignature

VerifyWebhookSignature(body, signature, secret) ==
    IF Falsy(signature) \/ Falsy(secret) THEN FALSE ELSE TRUE

----------------------------------------------------------------------------
\* HTTP requests: the X-Webhook-Signature header and the JSON envelope
\* { event, data: { key: { id, remoteJid }, message, success, update } }.

Blank ==
    [body |-> TRUE, signature |-> Undefined, event |-> Undefined,
     data |-> FALSE, key |-> FALSE, keyId |-> Undefined, remoteJid |-> Undefined,
     message |-> FALSE, conversation |-> Undefined, extendedText |-> Undefined,
     imageCaption |-> Undefined, documentCaption |-> Undefined,
     success |-> FALSE, update |-> FALSE, status |-> <<>>]

Keyed(id) == [Blank EXCEPT !.data = TRUE, !.key = TRUE, !.keyId = id, !.remoteJid = "201@jid"]

KeyIds == {Undefined} \cup {MessageId(n) : n \in 1..MaxMsgs}

\* Bodies of messages.received events.
ReceivedData ==
    { Blank,                                                     \* no data
      [Blank EXCEPT !.data = TRUE, !.message = TRUE, !.conversation = "hello"],  \* no key
      [Keyed("w1") EXCEPT !.message = TRUE],                     \* no text
      Keyed("w1"),                                               \* no message
      [Keyed("w1") EXCEPT !.message = TRUE, !.conversation = ""],  \* empty text
      [Keyed("w1") EXCEPT !.message = TRUE, !.imageCaption = "hello"],  \* a caption
      [Keyed("w1") EXCEPT !.message = TRUE, !.conversation = "hello"],
      [Keyed("w1") EXCEPT !.message = TRUE, !.conversation = "hello",
                          !.remoteJid = Undefined] }

\* Bodies of message.sent events.
SentData ==
    { Blank, Keyed("m1") }
    \cup { [Keyed(id) EXCEPT !.message = TRUE, !.conversation = "hello", !.success = ok] :
             id \in {Undefined, "m1"}, ok \in BOOLEAN }

\* Bodies of messages.update events carrying the numeric codes `codes`.
UpdateData(codes) ==
    { Blank, Keyed("m1"), [Keyed("m1") EXCEPT !.update = TRUE] }
    \cup { [Keyed(id) EXCEPT !.update = TRUE, !.status = <<c>>] : id \in KeyIds, c \in codes }

Enveloped(kind, bodies) == { [d EXCEPT !.event = kind] : d \in bodies }

Signed(sigs, envelopes) == { [e EXCEPT !.signature = s] : s \in sigs, e \in envelopes }

\* A text message, and a status update for each message id.
TextData == [Keyed("w1") EXCEPT !.message = TRUE, !.conversation = "hello"]

ReadData == { [Keyed(id) EXCEPT !.update = TRUE, !.status = <<READ>>] : id \in KeyIds }

StoredSecrets == {"sec1", "sec2"}

\* The requests of the pipeline specification: every handler and every way
\* to leave it early for both tenants, and requests that are malformed or
\* signed by no tenant.
Payloads ==
    Signed(StoredSecrets,
           Enveloped("messages.received", ReceivedData)
           \cup Enveloped("message.sent", SentData)
           \cup Enveloped("messages.update", UpdateData({SENT, READ}))
           \cup Enveloped("session.status", {TextData})
           \cup Enveloped(Undefined, {TextData})
           \cup Enveloped("", {TextData})
           \cup {[Blank EXCEPT !.body = FALSE]})
    \cup Signed({Undefined, "", "bogus"},
           Enveloped("messages.received", {TextData})
           \cup Enveloped("messages.update", ReadData)
           \cup Enveloped("message.sent", {[TextData EXCEPT !.keyId = "m1"]}))

\* The requests of the status-update specification: every code, one tenant.
StatusCodes == (0..MaxCode) \cup {99}

StatusPayloads ==
    Signed({"sec1"},
           Enveloped("messages.update", UpdateData(StatusCodes))
           \cup Enveloped("messages.received", {[Keyed("w1") EXCEPT !.message = TRUE, !.conversation = "hello"]}))

----------------------------------------------------------------------------
\* The synchronous parts of the handlers.

\* The validation without its check of the event field.
ValidateSignatureOnly(e) == IF Falsy(e.signature) THEN 400 ELSE 0

\* handleWebhook up to its first await: 0 when the envelope is accepted.
ValidateEnvelope(e) ==
    IF Falsy(e.signature) THEN 400
    ELSE IF ~e.body \/ Falsy(e.event) THEN 400
    ELSE 0

\* A switch whose default falls into the first case.
RouteDefaultReceived(event) ==
    CASE event = "message.sent" -> "handleMessageSent"
      [] event = "messages.update" -> "handleMessagesUpdate"
      [] OTHER -> "handleMessagesReceived"

\* The switch of handleWebhook: the handler an event kind selects.
Route(event) ==
    CASE event = "messages.received" -> "handleMessagesReceived"
      [] event = "message.sent" -> "handleMessageSent"
      [] event = "messages.update" -> "handleMessagesUpdate"
      [] OTHER -> "none"

\* An extraction that stores a message without text under a placeholder.
ExtractOrPlaceholder(e) ==
    IF Truthy(e.conversation) THEN e.conversation
    ELSE IF Truthy(e.extendedText) THEN e.extendedText
    ELSE IF Truthy(e.imageCaption) THEN e.imageCaption
    ELSE IF Truthy(e.documentCaption) THEN e.documentCaption
    ELSE "[media]"

\* Text of an inbound message, '' when it has none.
ExtractContent(e) ==
    IF Truthy(e.conversation) THEN e.conversation
    ELSE IF Truthy(e.extendedText) THEN e.extendedText
    ELSE IF Truthy(e.imageCaption) THEN e.imageCaption
    ELSE IF Truthy(e.documentCaption) THEN e.documentCaption
    ELSE ""

\* Text of a message.sent event, '' when it has none.
SentContent(e) == IF Truthy(e.conversation) THEN e.conversation ELSE ""

\* `key.id || undefined`
IdFilter(keyId) == IF Falsy(keyId) THEN Undefined ELSE keyId

\* A handler without try/catch.
CaughtNothing(outcome) == outcome

\* The try/catch around the body of every handler: what is thrown inside is
\* logged and the handler returns.
Caught(outcome) == IF outcome = "throw" THEN "return" ELSE outcome

\* A handleWebhook that returns without answering.
NoAnswer(outcome) == 0

\* handleWebhook after the handler: a handler that returned is acknowledged,
\* an exception that escaped it reaches handleWebhook's own catch.
ExitCode(outcome) == IF outcome = "throw" THEN 500 ELSE 200

\* Each handler up to its first await: the await it reaches, or "return".
\* Destructuring an absent data throws.
ReceivedStart(e) ==
    Caught(IF ~e.data THEN "throw"
           ELSE IF ~e.key \/ ~e.message THEN "return"
           ELSE IF Falsy(ExtractContent(e)) THEN "return"
           ELSE "create")

SentStart(e) ==
    Caught(IF ~e.data THEN "throw"
           ELSE IF ~e.key \/ ~e.message THEN "return"
           ELSE "sentById")

UpdateStart(e) ==
    Caught(IF ~e.data THEN "throw"
           ELSE IF ~e.update \/ ~e.key THEN "return"
           ELSE IF e.status = <<>> THEN "return"
           ELSE "update")

\* A switch that does not await the handler it calls.
HandlerNotAwaited(e) == "return"

HandlerStart(e) ==
    CASE Route(e.event) = "handleMessagesReceived" -> ReceivedStart(e)
      [] Route(e.event) = "handleMessageSent" -> SentStart(e)
      [] Route(e.event) = "handleMessagesUpdate" -> UpdateStart(e)
      [] OTHER -> "return"

\* The gate answering 404 for a signature of no session.
GateNotFound(found, e) ==
    IF found = <<>> THEN 404
    ELSE IF ~VerifyWebhookSignature(e, e.signature, found[1].webhookSecret) THEN 403
    ELSE 0

\* handleWebhook between the answer of findFirst and the switch: the status
\* it answers with, 0 when the event goes on to the switch.
Gate(found, e) ==
    IF found = <<>> THEN 200
    ELSE IF ~VerifyWebhookSignature(e, e.signature, found[1].webhookSecret) THEN 403
    ELSE 0

\* The switch with the cases of DELIVERED and READ exchanged.
StatusStringSwapped(status) ==
    CASE status = ERROR -> "error"
      [] status = PENDING -> "pending"
      [] status = SENT -> "sent"
      [] status = DELIVERED -> "read"
      [] status = READ -> "delivered"
      [] status = PLAYED -> "played"
      [] OTHER -> "unknown"

\* The switch of handleMessagesUpdate.
StatusString(status) ==
    CASE status = ERROR -> "error"
      [] status = PENDING -> "pending"
      [] status = SENT -> "sent"
      [] status = DELIVERED -> "delivered"
      [] status = READ -> "read"
      [] status = PLAYED -> "played"
      [] OTHER -> "unknown"

\* processIncomingMessage up to its first await.
ProcessStart(session) ==
    IF Prop(session, "clinicSettings") = <<>> THEN "return" ELSE "send"

\* The id the store gives a new row: one no stored row has.
FreshId(table) ==
    MessageId(CHOOSE n \in 1..(Len(table) + 1) :
                /\ \A i \in 1..Len(table) : table[i].id # MessageId(n)
                /\ \A k \in 1..(n - 1) : \E i \in 1..Len(table) : table[i].id = MessageId(k))

\* languageUsed of the row an inbound message is stored as:
\* session.user.languagePreference?.startsWith('ar') ? 'ar' : 'en'
LanguageUsed(session) ==
    IF StartsWithAr(session.user.languagePreference) THEN "ar" ELSE "en"

\* The row prisma.message.create is asked to insert.
NewMessage(table, session, e) ==
    [id |-> FreshId(table),
     whatsappSessionId |-> session.id,
     senderNumber |-> e.remoteJid,
     recipientNumber |-> session.phoneNumber,
     content |-> ExtractContent(e),
     direction |-> "inbound",
     status |-> "received",
     languageUsed |-> LanguageUsed(session)]

\* A create that merges with a stored row of the same session, sender and
\* content instead of inserting.
MergeRow(table, session, e) ==
    IF \E i \in 1..Len(table) :
           /\ table[i].whatsappSessionId = session.id
           /\ table[i].senderNumber = e.remoteJid
           /\ table[i].content = ExtractContent(e)
      THEN table
      ELSE Append(table, NewMessage(table, session, e))

\* A Message table without its foreign key: any session id is accepted.
NoForeignKey(table, id) == TRUE

\* Message_whatsappSessionId_fkey: a row can be inserted only for the id of a
\* stored session.
SessionExists(table, id) == \E i \in 1..Len(table) : table[i].id = id

\* prisma.whatsappSession.delete({ where: { id } }) on the session table.
DeleteSessionRow(table, id) ==
    LET Kept(row) == row.id # id IN SelectSeq(table, Kept)

\* ON DELETE CASCADE: the Message rows of the deleted session go with it.
CascadeMessages(table, id) ==
    LET Kept(row) == row.whatsappSessionId # id IN SelectSeq(table, Kept)

\* prisma.message.create: the table with the new row inserted.
CreateRow(table, session, e) == Append(table, NewMessage(table, session, e))

\* The where clauses of the three updateMany calls.
SentByIdWhere(row, session, e) ==
    MatchesId(row, session.id, IdFilter(e.keyId)) /\ row.direction = "outbound"

SentFallbackWhere(row, session, e) ==
    /\ row.whatsappSessionId = session.id
    /\ row.content = SentContent(e)
    /\ row.direction = "outbound"
    /\ row.status = "pending"

\* A where clause without its session filter: the id alone.
IdOnlyWhere(row, session, e) == IdFilter(e.keyId) = Undefined \/ row.id = IdFilter(e.keyId)

StatusWhere(row, session, e) == MatchesId(row, session.id, IdFilter(e.keyId))

SentStatus(e) == IF e.success THEN "sent" ELSE "failed"

\* An updateMany whose data also blanks the content of the rows it writes.
UpdateManyWithContent(table, rows, status) ==
    [i \in 1..Len(table) |->
        IF i \in rows THEN [table[i] EXCEPT !.status = status, !.content = ""]
        ELSE table[i]]

\* prisma.message.updateMany: one atomic statement of the store, writing
\* `status` to the rows of `table` at the indices `rows`.
UpdateMany(table, rows, status) ==
    [i \in 1..Len(table) |->
        IF i \in rows THEN [table[i] EXCEPT !.status = status] ELSE table[i]]

IdsOf(table, rows) == {table[i].id : i \in rows}

\* The updateMany of handleMessagesUpdate and the rows it matches.
StatusRows(table, session, e) ==
    {i \in 1..Len(table) : StatusWhere(table[i], session, e)}

StatusMatched(table, session, e) == IdsOf(table, StatusRows(table, session, e))

\* A status update that inserts a row with the new status instead of updating.
InsertStatusUpdate(table, session, e) ==
    Append(table, [id |-> MessageId(Len(table) + 1),
                   whatsappSessionId |-> session.id,
                   senderNumber |-> e.remoteJid,
                   recipientNumber |-> session.phoneNumber,
                   content |-> "",
                   direction |-> "outbound",
                   status |-> StatusString(e.status[1]),
                   languageUsed |-> "en"])

ApplyStatusUpdate(table, session, e) ==
    UpdateMany(table, StatusRows(table, session, e), StatusString(e.status[1]))

\* The two updateMany of handleMessageSent and the rows they match.
SentByIdRows(table, session, e) ==
    {i \in 1..Len(table) : SentByIdWhere(table[i], session, e)}

SentByIdMatched(table, session, e) == IdsOf(table, SentByIdRows(table, session, e))

ApplySentById(table, session, e) ==
    UpdateMany(table, SentByIdRows(table, session, e), SentStatus(e))

\* A fallback that matches on the rows as they were when the race began
\* instead of on the table it updates.
StaleFallbackRows(table, session, e) ==
    {i \in 1..Len(table) : i <= Len(call) /\ SentFallbackWhere(call[i], session, e)}

SentFallbackRows(table, session, e) ==
    {i \in 1..Len(table) : SentFallbackWhere(table[i], session, e)}

SentFallbackMatched(table, session, e) ==
    IdsOf(table, SentFallbackRows(table, session, e))

ApplySentFallback(table, session, e) ==
    UpdateMany(table, SentFallbackRows(table, session, e), SentStatus(e))

----------------------------------------------------------------------------
\* Initial state: two provisioned sessions, an empty Message table, no request.

Init ==
    /\ sessions = InitSessions
    /\ users = InitUsers
    /\ accounts = <<>>
    /\ clinicSetting = <<>>
    /\ client = NoClient
    /\ messages = <<>>
    /\ outbox = <<>>
    /\ pc = [r \in Reqs |-> "idle"]
    /\ ev = [r \in Reqs |-> Blank]
    /\ lookup = [r \in Reqs |-> "none"]
    /\ sess = [r \in Reqs |-> <<>>]
    /\ resp = [r \in Reqs |-> 0]
    /\ handlers = [r \in Reqs |-> <<>>]
    /\ verified = [r \in Reqs |-> <<>>]
    /\ writes = [r \in Reqs |-> {}]
    /\ call = <<>>
    /\ ret = <<>>

\* res.status(code).json(...): the request is answered and over.
Respond(r, code) ==
    /\ pc' = [pc EXCEPT ![r] = "done"]
    /\ resp' = [resp EXCEPT ![r] = code]

\* The request goes on to the await `next`, or is answered when it returned
\* or threw.
Continue(r, next) ==
    IF next \in {"return", "throw"}
      THEN Respond(r, ExitCode(next))
      ELSE /\ pc' = [pc EXCEPT ![r] = next]
           /\ UNCHANGED resp

\* A request that will insert a row and has not done so yet.
Creating(q) ==
    /\ pc[q] \in {"resolve", "create"}
    /\ HandlerStart(ev[q]) = "create"

\* The Message table is kept within MaxMsgs rows.
Admitted(e) ==
    HandlerStart(e) = "create"
        => Len(messages) + Cardinality({q \in Reqs : Creating(q)}) < MaxMsgs

\* handleWebhook, from the arrival of the request to the tenant lookup.
Accept(r, e) ==
    /\ pc[r] \in {"idle", "done"}
    /\ Admitted(e)
    /\ ev' = [ev EXCEPT ![r] = e]
    /\ lookup' = [lookup EXCEPT ![r] = "none"]
    /\ sess' = [sess EXCEPT ![r] = <<>>]
    /\ handlers' = [handlers EXCEPT ![r] = <<>>]
    /\ verified' = [verified EXCEPT ![r] = <<>>]
    /\ writes' = [writes EXCEPT ![r] = {}]
    /\ IF ValidateEnvelope(e) # 0
         THEN Respond(r, ValidateEnvelope(e))
         ELSE /\ pc' = [pc EXCEPT ![r] = "resolve"]
              /\ resp' = [resp EXCEPT ![r] = 0]
    /\ UNCHANGED <<sessions, users, accounts, clinicSetting, client, messages, outbox,
                   call, ret>>

Receive(r) == \E e \in Payloads : Accept(r, e)

\* handleWebhook, from the answer of findFirst to the first await of the
\* selected handler.  A rejected findFirst is caught by handleWebhook (500).
Resolve(r) ==
    /\ pc[r] = "resolve"
    /\ UNCHANGED <<sessions, users, accounts, clinicSetting, client, messages, outbox,
                   ev, writes, call, ret>>
    /\ \E rejected \in BOOLEAN :
        IF rejected
          THEN /\ lookup' = [lookup EXCEPT ![r] = "rejected"]
               /\ Respond(r, ExitCode("throw"))
               /\ UNCHANGED <<sess, handlers, verified>>
          ELSE LET found == FindFirstSession(sessions, users, ev[r].signature) IN
               /\ lookup' = [lookup EXCEPT ![r] = IF found = <<>> THEN "null" ELSE "found"]
               /\ sess' = [sess EXCEPT ![r] = found]
               /\ verified' = [verified EXCEPT ![r] =
                     IF found = <<>> THEN @
                     ELSE Append(@, VerifyWebhookSignature(ev[r], ev[r].signature,
                                                           found[1].webhookSecret))]
               /\ IF Gate(found, ev[r]) # 0
                    THEN /\ Respond(r, Gate(found, ev[r]))
                         /\ UNCHANGED handlers
                    ELSE /\ handlers' = [handlers EXCEPT ![r] =
                                IF Route(ev[r].event) = "none" THEN @
                                ELSE Append(@, Route(ev[r].event))]
                         /\ Continue(r, HandlerStart(ev[r]))

\* handleMessagesReceived, from the answer of message.create on, with
\* processIncomingMessage.  A create without senderNumber, or for a session
\* that is no longer stored, is rejected.
CreateMessage(r) ==
    /\ pc[r] = "create"
    /\ UNCHANGED <<sessions, users, accounts, clinicSetting, client, outbox, ev,
                   lookup, sess, handlers, verified, call, ret>>
    /\ \E rejected \in BOOLEAN :
        IF rejected \/ ev[r].remoteJid = Undefined
           \/ ~SessionExists(sessions, sess[r][1].id)
          THEN /\ Continue(r, Caught("throw"))
               /\ UNCHANGED <<messages, writes>>
          ELSE LET saved == NewMessage(messages, sess[r][1], ev[r]) IN
               /\ messages' = CreateRow(messages, sess[r][1], ev[r])
               /\ writes' = [writes EXCEPT ![r] = @ \cup {saved.id}]
               /\ Continue(r, ProcessStart(sess[r][1]))

\* handleMessageSent, the updateMany by message id.
UpdateSentById(r) ==
    /\ pc[r] = "sentById"
    /\ UNCHANGED <<sessions, users, accounts, clinicSetting, client, outbox, ev,
                   lookup, sess, handlers, verified, call, ret>>
    /\ \E rejected \in BOOLEAN :
        IF rejected
          THEN /\ Continue(r, Caught("throw"))
               /\ UNCHANGED <<messages, writes>>
          ELSE LET hit == SentByIdMatched(messages, sess[r][1], ev[r]) IN
               /\ messages' = ApplySentById(messages, sess[r][1], ev[r])
               /\ writes' = [writes EXCEPT ![r] = @ \cup hit]
               /\ Continue(r, IF hit = {} /\ Truthy(SentContent(ev[r]))
                                THEN "sentFallback" ELSE "return")

\* handleMessageSent, the fallback updateMany by content.
UpdateSentFallback(r) ==
    /\ pc[r] = "sentFallback"
    /\ UNCHANGED <<sessions, users, accounts, clinicSetting, client, outbox, ev,
                   lookup, sess, handlers, verified, call, ret>>
    /\ \E rejected \in BOOLEAN :
        IF rejected
          THEN /\ Continue(r, Caught("throw"))
               /\ UNCHANGED <<messages, writes>>
          ELSE /\ messages' = ApplySentFallback(messages, sess[r][1], ev[r])
               /\ writes' = [writes EXCEPT ![r] =
                                @ \cup SentFallbackMatched(messages, sess[r][1], ev[r])]
               /\ Continue(r, "return")

\* handleMessagesUpdate, the updateMany by message id.
UpdateStatus(r) ==
    /\ pc[r] = "update"
    /\ UNCHANGED <<sessions, users, accounts, clinicSetting, client, outbox, ev,
                   lookup, sess, handlers, verified, call, ret>>
    /\ \E rejected \in BOOLEAN :
        IF rejected
          THEN /\ Continue(r, Caught("throw"))
               /\ UNCHANGED <<messages, writes>>
          ELSE /\ messages' = ApplyStatusUpdate(messages, sess[r][1], ev[r])
               /\ writes' = [writes EXCEPT ![r] =
                                @ \cup StatusMatched(messages, sess[r][1], ev[r])]
               /\ Continue(r, "return")

Next ==
    \E r \in Reqs :
        \/ Receive(r)
        \/ Resolve(r)
        \/ CreateMessage(r)
        \/ UpdateSentById(r)
        \/ UpdateSentFallback(r)
        \/ UpdateStatus(r)

Spec == Init /\ [][Next]_vars

\* The pipeline with its scheduling: the store settles every call made to
\* it, by resolving or by rejecting, and the event loop resumes the request
\* that awaits it.
Settles(r) ==
    /\ WF_vars(Resolve(r))
    /\ WF_vars(CreateMessage(r))
    /\ WF_vars(UpdateSentById(r))
    /\ WF_vars(UpdateSentFallback(r))
    /\ WF_vars(UpdateStatus(r))

SpecLive == Spec /\ \A r \in Reqs : Settles(r)

----------------------------------------------------------------------------
\* The status-update specification: one tenant, every status code.

ReceiveStatus(r) == \E e \in StatusPayloads : Accept(r, e)

NextStatus ==
    \E r \in Reqs :
        \/ ReceiveStatus(r)
        \/ Resolve(r)
        \/ CreateMessage(r)
        \/ UpdateStatus(r)

SpecStatus == Init /\ [][NextStatus]_vars

----------------------------------------------------------------------------
\* The sent-event specification: the Message table already holds two rows,
\* written by the part of the product that sends, and message.sent events of
\* the first tenant arrive.

SeedRow(id) ==
    [id : {id},
     whatsappSessionId : {"s1", "s2"},
     senderNumber : {"+111"},
     recipientNumber : {"201@jid"},
     content : {"hello", "bye"},
     direction : {"outbound", "inbound"},
     status : {"pending", "sent"},
     languageUsed : {"en"}]

SeededTables == {<<a, b>> : a \in SeedRow("m1"), b \in SeedRow("m2")}

SentPayloads ==
    Signed({"sec1"},
           Enveloped("message.sent",
               {Blank}
               \cup { [Keyed(id) EXCEPT !.message = TRUE, !.conversation = c, !.success = ok] :
                        id \in {Undefined, "m1", "m9"},
                        c \in {Undefined, "hello"},
                        ok \in BOOLEAN }))

InitSent ==
    /\ sessions = InitSessions
    /\ users = InitUsers
    /\ accounts = <<>>
    /\ clinicSetting = <<>>
    /\ client = NoClient
    /\ messages \in SeededTables
    /\ outbox = <<>>
    /\ pc = [r \in Reqs |-> "idle"]
    /\ ev = [r \in Reqs |-> Blank]
    /\ lookup = [r \in Reqs |-> "none"]
    /\ sess = [r \in Reqs |-> <<>>]
    /\ resp = [r \in Reqs |-> 0]
    /\ handlers = [r \in Reqs |-> <<>>]
    /\ verified = [r \in Reqs |-> <<>>]
    /\ writes = [r \in Reqs |-> {}]
    /\ call = <<>>
    /\ ret = <<>>

\* One event is taken from a seeded table.
ReceiveSent(r) ==
    /\ pc[r] = "idle"
    /\ \E e \in SentPayloads : Accept(r, e)

NextSent ==
    \E r \in Reqs :
        \/ ReceiveSent(r)
        \/ Resolve(r)
        \/ UpdateSentById(r)
        \/ UpdateSentFallback(r)

SpecSent == InitSent /\ [][NextSent]_vars

----------------------------------------------------------------------------
\* The race specification: two requests are in flight at once, each with a
\* status event of the first tenant about the same message, and their store
\* calls interleave at every await.  `call` keeps the table the race began
\* with.

Racers == {1, 2}

RaceTables ==
    {<<[a EXCEPT !.whatsappSessionId = "s1", !.direction = "outbound",
                 !.content = "hello"], b>> :
        a \in SeedRow("m1"),
        b \in {x \in SeedRow("m2") : x.whatsappSessionId = "s1" /\ x.status = "pending"}}

RacePayloads ==
    Signed({"sec1"},
           Enveloped("message.sent",
               { [Keyed(id) EXCEPT !.message = TRUE, !.conversation = c, !.success = ok] :
                    id \in {"m1", "m9"}, c \in {Undefined, "hello"}, ok \in BOOLEAN })
           \cup Enveloped("messages.update",
               { [Keyed(id) EXCEPT !.update = TRUE, !.status = <<code>>] :
                    id \in {"m1", "m9"}, code \in {SENT, DELIVERED} }))

InitRace ==
    /\ sessions = InitSessions
    /\ users = InitUsers
    /\ accounts = <<>>
    /\ clinicSetting = <<>>
    /\ client = NoClient
    /\ messages \in RaceTables
    /\ call = messages
    /\ outbox = <<>>
    /\ pc = [r \in Racers |-> "idle"]
    /\ ev = [r \in Racers |-> Blank]
    /\ lookup = [r \in Racers |-> "none"]
    /\ sess = [r \in Racers |-> <<>>]
    /\ resp = [r \in Racers |-> 0]
    /\ handlers = [r \in Racers |-> <<>>]
    /\ verified = [r \in Racers |-> <<>>]
    /\ writes = [r \in Racers |-> {}]
    /\ ret = <<>>

\* Each racer takes one event.
ReceiveRace(r) ==
    /\ pc[r] = "idle"
    /\ \E e \in RacePayloads : Accept(r, e)

NextRace ==
    \E r \in Racers :
        \/ ReceiveRace(r)
        \/ Resolve(r)
        \/ UpdateSentById(r)
        \/ UpdateSentFallback(r)
        \/ UpdateStatus(r)

SpecRace == InitRace /\ [][NextRace]_vars

----------------------------------------------------------------------------
\* The two-tenant specification: the Message table holds a row of either
\* tenant, two requests are in flight at once, each with an event signed by
\* either tenant, and their store calls interleave at every await.

TenantTables ==
    {<<[a EXCEPT !.content = "hello", !.status = "pending"]>> : a \in SeedRow("m1")}

TenantPayloads ==
    Signed(StoredSecrets,
           Enveloped("messages.received", {TextData})
           \cup Enveloped("message.sent",
                   { [Keyed(id) EXCEPT !.message = TRUE, !.conversation = "hello",
                                       !.success = TRUE] : id \in KeyIds })
           \cup Enveloped("messages.update", ReadData))

InitTenants ==
    /\ sessions = InitSessions
    /\ users = InitUsers
    /\ accounts = <<>>
    /\ clinicSetting = <<>>
    /\ client = NoClient
    /\ messages \in TenantTables
    /\ call = <<>>
    /\ outbox = <<>>
    /\ pc = [r \in Racers |-> "idle"]
    /\ ev = [r \in Racers |-> Blank]
    /\ lookup = [r \in Racers |-> "none"]
    /\ sess = [r \in Racers |-> <<>>]
    /\ resp = [r \in Racers |-> 0]
    /\ handlers = [r \in Racers |-> <<>>]
    /\ verified = [r \in Racers |-> <<>>]
    /\ writes = [r \in Racers |-> {}]
    /\ ret = <<>>

\* Each request takes one event.
ReceiveTenants(r) ==
    /\ pc[r] = "idle"
    /\ \E e \in TenantPayloads : Accept(r, e)

NextTenants ==
    \E r \in Racers :
        \/ ReceiveTenants(r)
        \/ Resolve(r)
        \/ CreateMessage(r)
        \/ UpdateSentById(r)
        \/ UpdateSentFallback(r)
        \/ UpdateStatus(r)

SpecTenants == InitTenants /\ [][NextTenants]_vars

----------------------------------------------------------------------------
\* The deletion specification: webhook events of both tenants are handled
\* while an authenticated user deletes sessions.  `call` is the deleteSession
\* request: its position, its arguments, its answer, and the webhook requests
\* that held the session when its row was deleted.

DeleteIdle ==
    [pc |-> "idle", userId |-> Undefined, sessionId |-> Undefined, code |-> 0,
     raced |-> {}]

DeletePayloads ==
    Signed(StoredSecrets,
           Enveloped("messages.received", {TextData})
           \cup Enveloped("messages.update", ReadData))

InitDelete ==
    /\ sessions = InitSessions
    /\ users = InitUsers
    /\ accounts = <<>>
    /\ clinicSetting = <<>>
    /\ client = NoClient
    /\ messages = <<>>
    /\ outbox = <<>>
    /\ pc = [r \in Reqs |-> "idle"]
    /\ ev = [r \in Reqs |-> Blank]
    /\ lookup = [r \in Reqs |-> "none"]
    /\ sess = [r \in Reqs |-> <<>>]
    /\ resp = [r \in Reqs |-> 0]
    /\ handlers = [r \in Reqs |-> <<>>]
    /\ verified = [r \in Reqs |-> <<>>]
    /\ writes = [r \in Reqs |-> {}]
    /\ call = DeleteIdle
    /\ ret = <<>>

ReceiveDelete(r) == \E e \in DeletePayloads : Accept(r, e)

\* deleteSession, up to its findFirst.
DeleteStart ==
    /\ call.pc \in {"idle", "done"}
    /\ \E userId \in {"u1", "u2"}, sessionId \in {"s1", "s2", "s9"} :
         call' = [DeleteIdle EXCEPT !.pc = "find", !.userId = userId,
                                    !.sessionId = sessionId]
    /\ UNCHANGED <<sessions, users, accounts, clinicSetting, client, messages, outbox,
                   pc, ev, lookup, sess, resp,
                   handlers, verified, writes, ret>>

\* deleteSession, from the answer of findFirst to the delete.
DeleteFind ==
    /\ call.pc = "find"
    /\ \E rejected \in BOOLEAN :
         call' = IF rejected
                   THEN [call EXCEPT !.pc = "done", !.code = 500]
                 ELSE IF \E i \in 1..Len(sessions) :
                            /\ sessions[i].id = call.sessionId
                            /\ sessions[i].userId = call.userId
                   THEN [call EXCEPT !.pc = "delete"]
                 ELSE [call EXCEPT !.pc = "done", !.code = 404]
    /\ UNCHANGED <<sessions, users, accounts, clinicSetting, client, messages, outbox,
                   pc, ev, lookup, sess, resp,
                   handlers, verified, writes, ret>>

\* deleteSession, the delete and the answer.  A delete of a row that is gone
\* is rejected like any other failure of the store.
DeleteRow ==
    /\ call.pc = "delete"
    /\ \E rejected \in BOOLEAN :
         IF rejected \/ \A i \in 1..Len(sessions) : sessions[i].id # call.sessionId
           THEN /\ call' = [call EXCEPT !.pc = "done", !.code = 500]
                /\ UNCHANGED <<sessions, messages>>
           ELSE /\ sessions' = DeleteSessionRow(sessions, call.sessionId)
                /\ messages' = CascadeMessages(messages, call.sessionId)
                /\ call' = [call EXCEPT !.pc = "done", !.code = 200,
                                  !.raced = {r \in Reqs :
                                               /\ pc[r] \notin {"idle", "done"}
                                               /\ sess[r] # <<>>
                                               /\ sess[r][1].id = call.sessionId}]
    /\ UNCHANGED <<users, accounts, clinicSetting, client, outbox, pc, ev, lookup,
                   sess, resp, handlers, verified,
                   writes, ret>>

NextDelete ==
    \/ \E r \in Reqs :
        \/ ReceiveDelete(r)
        \/ Resolve(r)
        \/ CreateMessage(r)
        \/ UpdateStatus(r)
    \/ DeleteStart
    \/ DeleteFind
    \/ DeleteRow

SpecDelete == InitDelete /\ [][NextDelete]_vars

----------------------------------------------------------------------------
\* The registration specification: two register requests are in flight at
\* once.  `ev` is the request body, `lookup` how findUnique answered, `sess`
\* the User row the request created, `writes` the rows it created, and `call`
\* holds per request the store call that failed and the token answered with.

Registrants == {1, 2}

UserId(n) == "u" \o ToString(n)

SettingId(n) == "c" \o ToString(n)

\* jwt.sign({ userId }, secret): the token, by what it verifies to.
SignToken(userId) == [userId |-> userId, signed |-> TRUE]

RegisterBodies ==
    { [email |-> e, password |-> "pw", clinicName |-> "Clinic"] : e \in {"a@x", "b@x"} }
    \cup { [email |-> Undefined, password |-> "pw", clinicName |-> "Clinic"],
           [email |-> "a@x", password |-> Undefined, clinicName |-> "Clinic"],
           [email |-> "a@x", password |-> "pw", clinicName |-> ""] }

\* A User table without its unique index on email.
NoUniqueIndex(table, email) == FALSE

\* User_email_key: a row with the email is stored.
EmailTaken(table, email) == \E i \in 1..Len(table) : table[i].email = email

\* prisma.user.create
NewUser(table, body) ==
    [id |-> UserId(Len(table) + 1), email |-> body.email, password |-> "hashed",
     clinicName |-> body.clinicName]

\* prisma.clinicSetting.create with the default greetings.
NewSetting(table, userId) ==
    [id |-> SettingId(Len(table) + 1), userId |-> userId,
     greetingMessageEn |-> "Hello! Welcome to our dental clinic. How can we help you today?",
     greetingMessageAr |-> "[ar] Hello! Welcome to our dental clinic. How can we help you today?",
     workingHours |-> Undefined]

NoCall == [failed |-> "none", token |-> <<>>]

InitRegister ==
    /\ sessions = <<>>
    /\ users = InitUsers
    /\ accounts = <<>>
    /\ clinicSetting = <<>>
    /\ client = NoClient
    /\ messages = <<>>
    /\ outbox = <<>>
    /\ pc = [r \in Registrants |-> "idle"]
    /\ ev = [r \in Registrants |-> Blank]
    /\ lookup = [r \in Registrants |-> "none"]
    /\ sess = [r \in Registrants |-> <<>>]
    /\ resp = [r \in Registrants |-> 0]
    /\ handlers = [r \in Registrants |-> <<>>]
    /\ verified = [r \in Registrants |-> <<>>]
    /\ writes = [r \in Registrants |-> {}]
    /\ call = [r \in Registrants |-> NoCall]
    /\ ret = <<>>

\* register, up to its findUnique.
RegisterStart(r) ==
    /\ pc[r] \in {"idle", "done"}
    /\ \E body \in RegisterBodies :
         /\ ev' = [ev EXCEPT ![r] = body]
         /\ IF Falsy(body.email) \/ Falsy(body.password) \/ Falsy(body.clinicName)
              THEN Respond(r, 400)
              ELSE /\ pc' = [pc EXCEPT ![r] = "findUnique"]
                   /\ resp' = [resp EXCEPT ![r] = 0]
    /\ lookup' = [lookup EXCEPT ![r] = "none"]
    /\ sess' = [sess EXCEPT ![r] = <<>>]
    /\ writes' = [writes EXCEPT ![r] = {}]
    /\ call' = [call EXCEPT ![r] = NoCall]
    /\ UNCHANGED <<sessions, users, accounts, clinicSetting, client, messages, outbox,
                   handlers, verified, ret>>

\* register, from the answer of findUnique over the hashing of the password
\* to the user.create.
RegisterFind(r) ==
    /\ pc[r] = "findUnique"
    /\ \E rejected \in BOOLEAN :
         IF rejected
           THEN /\ lookup' = [lookup EXCEPT ![r] = "rejected"]
                /\ call' = [call EXCEPT ![r].failed = "findUnique"]
                /\ Respond(r, 500)
         ELSE IF \E i \in 1..Len(accounts) : accounts[i].email = ev[r].email
           THEN /\ lookup' = [lookup EXCEPT ![r] = "found"]
                /\ Respond(r, 409)
                /\ UNCHANGED call
         ELSE /\ lookup' = [lookup EXCEPT ![r] = "null"]
              /\ pc' = [pc EXCEPT ![r] = "createUser"]
              /\ UNCHANGED <<resp, call>>
    /\ UNCHANGED <<sessions, users, accounts, clinicSetting, client, messages, outbox,
                   ev, sess, handlers, verified, writes, ret>>

\* register, from the answer of user.create to the clinicSetting.create.  The
\* store rejects a second row with a stored email.
RegisterCreateUser(r) ==
    /\ pc[r] = "createUser"
    /\ \E rejected \in BOOLEAN :
         IF rejected \/ EmailTaken(accounts, ev[r].email)
           THEN /\ call' = [call EXCEPT ![r].failed =
                               IF rejected THEN "user.create" ELSE "User_email_key"]
                /\ Respond(r, 500)
                /\ UNCHANGED <<accounts, sess, writes>>
           ELSE /\ accounts' = Append(accounts, NewUser(accounts, ev[r]))
                /\ sess' = [sess EXCEPT ![r] = <<NewUser(accounts, ev[r])>>]
                /\ writes' = [writes EXCEPT ![r] = @ \cup {NewUser(accounts, ev[r]).id}]
                /\ pc' = [pc EXCEPT ![r] = "createSetting"]
                /\ UNCHANGED <<resp, call>>
    /\ UNCHANGED <<sessions, users, clinicSetting, client, messages, outbox, ev, lookup,
                   handlers, verified, ret>>

\* register, from the answer of clinicSetting.create to the response.
RegisterCreateSetting(r) ==
    /\ pc[r] = "createSetting"
    /\ \E rejected \in BOOLEAN :
         IF rejected
           THEN /\ call' = [call EXCEPT ![r].failed = "clinicSetting.create"]
                /\ Respond(r, 500)
                /\ UNCHANGED <<clinicSetting, writes>>
           ELSE /\ clinicSetting' = Append(clinicSetting,
                                           NewSetting(clinicSetting, sess[r][1].id))
                /\ writes' = [writes EXCEPT ![r] =
                                @ \cup {NewSetting(clinicSetting, sess[r][1].id).id}]
                /\ call' = [call EXCEPT ![r].token = <<SignToken(sess[r][1].id)>>]
                /\ Respond(r, 201)
    /\ UNCHANGED <<sessions, users, accounts, client, messages, outbox, ev, lookup, sess,
                   handlers, verified, ret>>

NextRegister ==
    \E r \in Registrants :
        \/ RegisterStart(r)
        \/ RegisterFind(r)
        \/ RegisterCreateUser(r)
        \/ RegisterCreateSetting(r)

SpecRegister == InitRegister /\ [][NextRegister]_vars

----------------------------------------------------------------------------
\* The authentication specification: requests to the session routes pass
\* authenticateToken before their handler.  `ev` is the request's
\* Authorization header, `lookup` how findUnique answered, and `call` what the
\* middleware did: the error it answered with, req.userId, whether next() was
\* called and whether the route handler ran.

\* Two requests are in flight at once.
Callers == {1, 2}

\* A token by what jwt.verify makes of it: garbage is no JWT at all, a forged
\* token is not signed with the secret, an expired one is past its exp.
Token(userId, signed, expired) ==
    [jwt |-> TRUE, userId |-> userId, signed |-> signed, expired |-> expired]

Garbage == [jwt |-> FALSE, userId |-> Undefined, signed |-> FALSE, expired |-> FALSE]

Tokens ==
    { Garbage }
    \cup { Token(u, signed, expired) :
             u \in {"u1", "u2", "u9"}, signed \in BOOLEAN, expired \in BOOLEAN }

\* req.headers['authorization']: absent, or a scheme word followed by the
\* words `rest`.  The scheme word is never compared.
NoHeader == [present |-> FALSE, scheme |-> Undefined, rest |-> <<>>]

Header(scheme, rest) == [present |-> TRUE, scheme |-> scheme, rest |-> rest]

AuthHeaders ==
    { NoHeader, Header("Bearer", <<>>) }
    \cup { Header("Bearer", <<t>>) : t \in Tokens }
    \cup { Header("Basic", <<t>>) : t \in {Garbage, Token("u1", TRUE, FALSE)} }

\* authHeader && authHeader.split(' ')[1]
BearerToken(header) ==
    IF header.present /\ Len(header.rest) >= 1 THEN <<header.rest[1]>> ELSE <<>>

\* jwt.decode: the payload of the token, whoever signed it.
JwtDecode(token, secretSet) ==
    IF token.jwt THEN "decoded" ELSE "JsonWebTokenError"

\* jwt.verify(token, secret), after the check that the secret is configured:
\* "decoded", or the error thrown.  TokenExpiredError is a JsonWebTokenError.
JwtVerify(token, secretSet) ==
    IF ~secretSet THEN "Error"
    ELSE IF ~token.jwt \/ ~token.signed THEN "JsonWebTokenError"
    ELSE IF token.expired THEN "TokenExpiredError"
    ELSE "decoded"

\* The catch of authenticateToken: the error message for what was thrown.
AuthError(thrown) ==
    IF thrown \in {"JsonWebTokenError", "TokenExpiredError"} THEN "Invalid token"
    ELSE "Invalid or expired token"

NoAuth == [error |-> "", userId |-> Undefined, next |-> FALSE, ran |-> FALSE]

\* Rows of the User table for the ids in `ids`.
StoredUsers(ids) ==
    [i \in 1..Len(ids) |->
        [id |-> ids[i], email |-> ids[i] \o "@x", password |-> "hashed",
         clinicName |-> "Clinic"]]

InitAuth ==
    /\ sessions = InitSessions
    /\ users = InitUsers
    /\ accounts \in {StoredUsers(<<>>), StoredUsers(<<"u1">>), StoredUsers(<<"u1", "u2">>)}
    /\ clinicSetting = <<>>
    /\ client = NoClient
    /\ messages = <<>>
    /\ outbox = <<>>
    /\ pc = [r \in Callers |-> "idle"]
    /\ ev = [r \in Callers |-> NoHeader]
    /\ lookup = [r \in Callers |-> "none"]
    /\ sess = [r \in Callers |-> <<>>]
    /\ resp = [r \in Callers |-> 0]
    /\ handlers = [r \in Callers |-> <<>>]
    /\ verified = [r \in Callers |-> <<>>]
    /\ writes = [r \in Callers |-> {}]
    /\ call = [r \in Callers |-> NoAuth]
    /\ ret = <<>>

\* authenticateToken, up to its findUnique.
Authenticate(r) ==
    /\ pc[r] \in {"idle", "done"}
    /\ \E header \in AuthHeaders :
         LET token == BearerToken(header)
             decoded == JwtVerify(token[1], TRUE)
         IN  /\ ev' = [ev EXCEPT ![r] = header]
             /\ lookup' = [lookup EXCEPT ![r] = "none"]
             /\ IF token = <<>>
                  THEN /\ Respond(r, 401)
                       /\ call' = [call EXCEPT ![r] =
                                     [NoAuth EXCEPT !.error = "Access token required"]]
                ELSE IF decoded # "decoded"
                  THEN /\ Respond(r, 403)
                       /\ call' = [call EXCEPT ![r] =
                                     [NoAuth EXCEPT !.error = AuthError(decoded)]]
                ELSE /\ pc' = [pc EXCEPT ![r] = "findUnique"]
                     /\ resp' = [resp EXCEPT ![r] = 0]
                     /\ call' = [call EXCEPT ![r] = NoAuth]
    /\ UNCHANGED <<sessions, users, accounts, clinicSetting, client, messages, outbox,
                   sess, handlers, verified, writes, ret>>

\* authenticateToken, from the answer of findUnique to next().
AuthenticateFind(r) ==
    /\ pc[r] = "findUnique"
    /\ \E rejected \in BOOLEAN :
         LET userId == BearerToken(ev[r])[1].userId IN
         IF rejected
           THEN /\ lookup' = [lookup EXCEPT ![r] = "rejected"]
                /\ Respond(r, 403)
                /\ call' = [call EXCEPT ![r].error = AuthError("PrismaClientError")]
         ELSE IF \A i \in 1..Len(accounts) : accounts[i].id # userId
           THEN /\ lookup' = [lookup EXCEPT ![r] = "null"]
                /\ Respond(r, 401)
                /\ call' = [call EXCEPT ![r].error = "Invalid token - user not found"]
         ELSE /\ lookup' = [lookup EXCEPT ![r] = "found"]
              /\ pc' = [pc EXCEPT ![r] = "handler"]
              /\ call' = [call EXCEPT ![r].userId = userId, ![r].next = TRUE]
              /\ UNCHANGED resp
    /\ UNCHANGED <<sessions, users, accounts, clinicSetting, client, messages, outbox,
                   ev, sess, handlers, verified, writes, ret>>

\* The handler of the session route, reached through next().
RouteHandler(r) ==
    /\ pc[r] = "handler"
    /\ call' = [call EXCEPT ![r].ran = TRUE]
    /\ Respond(r, 200)
    /\ UNCHANGED <<sessions, users, accounts, clinicSetting, client, messages, outbox,
                   ev, lookup, sess, handlers, verified, writes, ret>>

NextAuth ==
    \E r \in Callers :
        \/ Authenticate(r)
        \/ AuthenticateFind(r)
        \/ RouteHandler(r)

SpecAuth == InitAuth /\ [][NextAuth]_vars

----------------------------------------------------------------------------
\* The session specification: an authenticated user creates and connects
\* sessions, and the provider answers as it likes.  `ev` is the request
\* (operation, req.userId, body or route parameter), `lookup` the provider's
\* answer, `sess` the session row the request works on, and `call` holds per
\* request the number of provider calls it made and the step that failed.

MaxSessions == 2          \* rows the WhatsappSession table may hold
MaxProviderCalls == 3     \* calls of the provider a run may make

SessionRowId(n) == "s" \o ToString(n)

\* process.env.ACCESS_TOKEN_API
AccessToken == "access"

\* The transport call of a request, as it leaves the shared client.
ProviderCall(r, operation, authorization) ==
    [by |-> r, operation |-> operation, authorization |-> authorization]

\* `Bearer ${apiKey}` written to the defaults of the shared client.
WithAuthorization(apiKey) == [authorization |-> "Bearer " \o apiKey]

SessionBodies ==
    { [name |-> n, phone_number |-> p] :
        n \in {Undefined, "Front desk"}, p \in {Undefined, "", "+111"} }

\* What the provider can answer a create or a connect with: an error, an
\* empty body, a refusal, a success without data, a success whose data lacks
\* the id, and a success with data whose status is absent, a status of the
\* enum, or another word.
ProviderStatuses == {Undefined, "connected", "connecting", "need_scan"}

ProviderAnswer(kind, status) ==
    [kind |-> kind, id |-> IF kind = "data" THEN <<7>> ELSE <<>>,
     api_key |-> "key7", webhook_secret |-> "sec7", status |-> status]

ProviderAnswers ==
    { ProviderAnswer(kind, Undefined) : kind \in {"throw", "null", "refused", "nodata", "noid"} }
    \cup { ProviderAnswer("data", status) : status \in ProviderStatuses }

\* !response || !response.success || !response.data
NotSuccessWithData(answer) == answer.kind \in {"null", "refused", "nodata"}

\* A body check that lets every body pass.
NothingMissing(body) == FALSE

\* !name || !phone_number
MissingField(body) == Falsy(body.name) \/ Falsy(body.phone_number)

\* The sessionStatus || 'pending' of createSession and the
\* connectResponse.data.status || 'connecting' of connectSession.
StatusOr(status, default) == IF Truthy(status) THEN status ELSE default

\* prisma.whatsappSession.create of createSession.
NewSession(table, userId, body, answer) ==
    [id |-> SessionRowId(Len(table) + 1), userId |-> userId,
     sessionId |-> ToString(answer.id[1]), apiKey |-> answer.api_key,
     webhookSecret |-> answer.webhook_secret, phoneNumber |-> body.phone_number,
     status |-> StatusOr(answer.status, "pending")]

\* parseInt(text, 10) on the ids in use: the number a text begins with,
\* <<>> (NaN) when it begins with none.
ParseInt(text) ==
    CASE text = "7" -> <<7>>
      [] text = "7b" -> <<7>>
      [] text = "101" -> <<101>>
      [] text = "102" -> <<102>>
      [] OTHER -> <<>>

NoSessionCall == [provider |-> 0, failed |-> "none"]

InitSession ==
    /\ sessions = <<>>
    /\ users = InitUsers
    /\ accounts = StoredUsers(<<"u1", "u2">>)
    /\ clinicSetting = <<>>
    /\ client = NoClient
    /\ messages = <<>>
    /\ outbox = <<>>
    /\ pc = [r \in Reqs |-> "idle"]
    /\ ev = [r \in Reqs |-> [operation |-> "none"]]
    /\ lookup = [r \in Reqs |-> "none"]
    /\ sess = [r \in Reqs |-> <<>>]
    /\ resp = [r \in Reqs |-> 0]
    /\ handlers = [r \in Reqs |-> <<>>]
    /\ verified = [r \in Reqs |-> <<>>]
    /\ writes = [r \in Reqs |-> {}]
    /\ call = [r \in Reqs |-> NoSessionCall]
    /\ ret = <<>>

\* createSession, up to the call of the provider.
CreateSessionStart(r) ==
    /\ pc[r] \in {"idle", "done"}
    /\ Len(sessions) < MaxSessions
    /\ Len(outbox) < MaxProviderCalls
    /\ \E userId \in {"u1", "u2"}, body \in SessionBodies :
         /\ ev' = [ev EXCEPT ![r] = [operation |-> "createSession", userId |-> userId,
                                     body |-> body]]
         /\ IF MissingField(body)
              THEN /\ Respond(r, 400)
                   /\ call' = [call EXCEPT ![r] = NoSessionCall]
                   /\ UNCHANGED <<client, outbox>>
              ELSE /\ pc' = [pc EXCEPT ![r] = "createProvider"]
                   /\ resp' = [resp EXCEPT ![r] = 0]
                   /\ call' = [call EXCEPT ![r] = [NoSessionCall EXCEPT !.provider = 1]]
                   /\ client' = WithAuthorization(AccessToken)
                   /\ outbox' = Append(outbox,
                                    ProviderCall(r, "createSession",
                                                 WithAuthorization(AccessToken).authorization))
    /\ lookup' = [lookup EXCEPT ![r] = "none"]
    /\ sess' = [sess EXCEPT ![r] = <<>>]
    /\ writes' = [writes EXCEPT ![r] = {}]
    /\ UNCHANGED <<sessions, users, accounts, clinicSetting, messages, handlers,
                   verified, ret>>

\* createSession, from the provider's answer to the create of the row.
\* Reading sessionId.toString() of an answer without id throws.
CreateSessionAnswer(r) ==
    /\ pc[r] = "createProvider"
    /\ \E answer \in ProviderAnswers :
         /\ lookup' = [lookup EXCEPT ![r] = answer.kind]
         /\ IF answer.kind = "throw" \/ NotSuccessWithData(answer) \/ answer.id = <<>>
              THEN /\ Respond(r, 500)
                   /\ call' = [call EXCEPT ![r].failed = "provider"]
                   /\ UNCHANGED sess
              ELSE /\ pc' = [pc EXCEPT ![r] = "createRow"]
                   /\ sess' = [sess EXCEPT ![r] =
                                 <<NewSession(sessions, ev[r].userId, ev[r].body, answer)>>]
                   /\ UNCHANGED <<resp, call>>
    /\ UNCHANGED <<sessions, users, accounts, clinicSetting, client, messages, outbox,
                   ev, handlers, verified, writes, ret>>

\* createSession, from the answer of whatsappSession.create to the response.
CreateSessionRow(r) ==
    /\ pc[r] = "createRow"
    /\ \E rejected \in BOOLEAN :
         IF rejected
           THEN /\ Respond(r, 500)
                /\ call' = [call EXCEPT ![r].failed = "store"]
                /\ UNCHANGED <<sessions, writes>>
           ELSE /\ sessions' = Append(sessions, sess[r][1])
                /\ writes' = [writes EXCEPT ![r] = @ \cup {sess[r][1].id}]
                /\ Respond(r, 201)
                /\ UNCHANGED call
    /\ UNCHANGED <<users, accounts, clinicSetting, client, messages, outbox, ev, lookup,
                   sess, handlers, verified, ret>>

\* connectSession, up to its findFirst.
ConnectStart(r) ==
    /\ pc[r] \in {"idle", "done"}
    /\ Len(outbox) < MaxProviderCalls
    /\ \E userId \in {"u1", "u2"}, sessionId \in {SessionRowId(1), SessionRowId(2)} :
         ev' = [ev EXCEPT ![r] = [operation |-> "connectSession", userId |-> userId,
                                  sessionId |-> sessionId]]
    /\ pc' = [pc EXCEPT ![r] = "connectFind"]
    /\ resp' = [resp EXCEPT ![r] = 0]
    /\ call' = [call EXCEPT ![r] = NoSessionCall]
    /\ lookup' = [lookup EXCEPT ![r] = "none"]
    /\ sess' = [sess EXCEPT ![r] = <<>>]
    /\ writes' = [writes EXCEPT ![r] = {}]
    /\ UNCHANGED <<sessions, users, accounts, clinicSetting, client, messages, outbox,
                   handlers, verified, ret>>

\* connectSession, from the answer of findFirst to the call of the provider.
ConnectFind(r) ==
    /\ pc[r] = "connectFind"
    /\ \E rejected \in BOOLEAN :
         LET hits == {i \in 1..Len(sessions) :
                        /\ sessions[i].id = ev[r].sessionId
                        /\ sessions[i].userId = ev[r].userId}
             found == sessions[CHOOSE i \in hits : TRUE]
         IN  IF rejected
               THEN /\ Respond(r, 500)
                    /\ call' = [call EXCEPT ![r].failed = "store"]
                    /\ UNCHANGED <<sess, client, outbox>>
             ELSE IF hits = {}
               THEN /\ Respond(r, 404)
                    /\ UNCHANGED <<call, sess, client, outbox>>
             ELSE IF ParseInt(found.sessionId) = <<>>
               THEN /\ Respond(r, 400)
                    /\ UNCHANGED <<call, sess, client, outbox>>
             ELSE /\ pc' = [pc EXCEPT ![r] = "connectProvider"]
                  /\ sess' = [sess EXCEPT ![r] = <<found>>]
                  /\ call' = [call EXCEPT ![r].provider = 1]
                  /\ client' = WithAuthorization(found.apiKey)
                  /\ outbox' = Append(outbox,
                                   ProviderCall(r, "connectSession",
                                                WithAuthorization(found.apiKey).authorization))
                  /\ UNCHANGED resp
    /\ UNCHANGED <<sessions, users, accounts, clinicSetting, messages, ev, lookup,
                   handlers, verified, writes, ret>>

\* connectSession, from the provider's answer to the update of the row.
\* Reading connectResponse.data.status of an answer without data throws.
ConnectAnswer(r) ==
    /\ pc[r] = "connectProvider"
    /\ \E answer \in ProviderAnswers :
         /\ lookup' = [lookup EXCEPT ![r] = answer.kind]
         /\ IF answer.kind \in {"throw", "null", "refused", "nodata"}
              THEN /\ Respond(r, 500)
                   /\ call' = [call EXCEPT ![r].failed = "provider"]
                   /\ UNCHANGED sess
              ELSE /\ pc' = [pc EXCEPT ![r] = "connectUpdate"]
                   /\ sess' = [sess EXCEPT ![r] =
                                 <<[@[1] EXCEPT !.status = StatusOr(answer.status, "connecting")]>>]
                   /\ UNCHANGED <<resp, call>>
    /\ UNCHANGED <<sessions, users, accounts, clinicSetting, client, messages, outbox,
                   ev, handlers, verified, writes, ret>>

\* connectSession, from the answer of whatsappSession.update to the response.
ConnectUpdate(r) ==
    /\ pc[r] = "connectUpdate"
    /\ \E rejected \in BOOLEAN :
         IF rejected
           THEN /\ Respond(r, 500)
                /\ call' = [call EXCEPT ![r].failed = "store"]
                /\ UNCHANGED <<sessions, writes>>
           ELSE /\ sessions' = [i \in 1..Len(sessions) |->
                                  IF sessions[i].id = sess[r][1].id
                                    THEN [sessions[i] EXCEPT !.status = sess[r][1].status]
                                    ELSE sessions[i]]
                /\ writes' = [writes EXCEPT ![r] = @ \cup {sess[r][1].id}]
                /\ Respond(r, 200)
                /\ UNCHANGED call
    /\ UNCHANGED <<users, accounts, clinicSetting, client, messages, outbox, ev, lookup,
                   sess, handlers, verified, ret>>

NextSession ==
    \E r \in Reqs :
        \/ CreateSessionStart(r)
        \/ CreateSessionAnswer(r)
        \/ CreateSessionRow(r)
        \/ ConnectStart(r)
        \/ ConnectFind(r)
        \/ ConnectAnswer(r)
        \/ ConnectUpdate(r)

SpecSession == InitSession /\ [][NextSession]_vars

----------------------------------------------------------------------------
\* The transport specification: the one WasenderService of the process, and
\* sendMessage called for two tenants whose calls overlap.  A call writes the
\* tenant's key to the defaults of the shared client and calls post() in the
\* same synchronous run; post() merges the defaults into the request's own
\* configuration before it returns its promise.  The request leaves, and the
\* provider answers, in later turns of the event loop.  `call` holds per
\* tenant the position of its call and the configuration of its request,
\* `outbox` the requests as they reach the provider.

Tenants == {1, 2}

TenantKey(t) == "key" \o ToString(t)

SendRecipients == {"+100", "+200"}

\* A request that reads the Authorization header from the shared client
\* when it leaves.
HeadersAtDispatch(merged, shared) == shared

\* The headers a request leaves with: those post() merged into its
\* configuration when it was called, whatever the shared client holds by now.
RequestHeaders(merged, shared) == merged

TransportIdle == [at |-> "idle", to |-> Undefined, headers |-> NoClient, ok |-> FALSE]

\* The request as it reaches the provider; `shared` notes the header the
\* shared client held at that moment.
TransportRequest(t, to, headers, shared) ==
    [by |-> t, operation |-> "sendMessage", to |-> to,
     authorization |-> headers.authorization, shared |-> shared.authorization]

InitTransport ==
    /\ sessions = <<>>
    /\ users = InitUsers
    /\ accounts = <<>>
    /\ clinicSetting = <<>>
    /\ client = NoClient
    /\ messages = <<>>
    /\ outbox = <<>>
    /\ pc = [r \in Reqs |-> "idle"]
    /\ ev = [r \in Reqs |-> <<>>]
    /\ lookup = [r \in Reqs |-> "none"]
    /\ sess = [r \in Reqs |-> <<>>]
    /\ resp = [r \in Reqs |-> 0]
    /\ handlers = [r \in Reqs |-> <<>>]
    /\ verified = [r \in Reqs |-> <<>>]
    /\ writes = [r \in Reqs |-> {}]
    /\ call = [t \in Tenants |-> TransportIdle]
    /\ ret = <<>>

\* sendMessage, from its call to the await of post().
SendMessageCall(t) ==
    /\ call[t].at \in {"idle", "returned"}
    /\ Len(outbox) + Cardinality({u \in Tenants : call[u].at = "posted"}) < MaxProviderCalls
    /\ \E to \in SendRecipients :
         /\ client' = WithAuthorization(TenantKey(t))
         /\ call' = [call EXCEPT ![t] = [at |-> "posted", to |-> to,
                                         headers |-> WithAuthorization(TenantKey(t)),
                                         ok |-> FALSE]]
    /\ UNCHANGED <<sessions, users, accounts, clinicSetting, messages, outbox, pc, ev,
                   lookup, sess, resp, handlers, verified, writes, ret>>

\* The request of a call leaves for the provider.
SendMessageDispatch(t) ==
    /\ call[t].at = "posted"
    /\ outbox' = Append(outbox,
                        TransportRequest(t, call[t].to,
                                         RequestHeaders(call[t].headers, client), client))
    /\ call' = [call EXCEPT ![t].at = "sent"]
    /\ UNCHANGED <<sessions, users, accounts, clinicSetting, client, messages, pc, ev,
                   lookup, sess, resp, handlers, verified, writes, ret>>

\* sendMessage, from the provider's answer to its return or its throw.
SendMessageAnswer(t) ==
    /\ call[t].at = "sent"
    /\ \E ok \in BOOLEAN :
         call' = [call EXCEPT ![t].at = "returned", ![t].ok = ok]
    /\ UNCHANGED <<sessions, users, accounts, clinicSetting, client, messages, outbox,
                   pc, ev, lookup, sess, resp, handlers, verified, writes, ret>>

NextTransport ==
    \E t \in Tenants :
        \/ SendMessageCall(t)
        \/ SendMessageDispatch(t)
        \/ SendMessageAnswer(t)

SpecTransport == InitTransport /\ [][NextTransport]_vars

----------------------------------------------------------------------------
\* The ownership specification: two users own one session each, each
\* session has a stored message, and an authenticated user calls the session
\* routes on either session or on an id that is not stored.  The row id is a
\* text the store generates: one of the two begins with a digit.  `ret`
\* holds the rows getAllSessions answered with.

OwnerIds == <<"s1", "7b">>

OwnerSessions ==
    { << [InitSessions[1] EXCEPT !.id = OwnerIds[1], !.userId = a],
         [InitSessions[2] EXCEPT !.id = OwnerIds[2], !.userId = b] >> :
        a \in {"u1", "u2"}, b \in {"u1", "u2"} }

OwnerMessages ==
    << [id |-> MessageId(1), whatsappSessionId |-> OwnerIds[1], senderNumber |-> "201@jid",
        recipientNumber |-> "+111", content |-> "hello", direction |-> "inbound",
        status |-> "received", languageUsed |-> "en"],
       [id |-> MessageId(2), whatsappSessionId |-> OwnerIds[2], senderNumber |-> "202@jid",
        recipientNumber |-> "+222", content |-> "hello", direction |-> "inbound",
        status |-> "received", languageUsed |-> "en"] >>

OwnerOperations ==
    {"getAllSessions", "getSession", "deleteSession", "connectSession", "getQRCode"}

InitOwner ==
    /\ sessions \in OwnerSessions
    /\ users = InitUsers
    /\ accounts = StoredUsers(<<"u1", "u2">>)
    /\ clinicSetting = <<>>
    /\ client = NoClient
    /\ messages = OwnerMessages
    /\ outbox = <<>>
    /\ pc = [r \in Reqs |-> "idle"]
    /\ ev = [r \in Reqs |-> [operation |-> "none"]]
    /\ lookup = [r \in Reqs |-> "none"]
    /\ sess = [r \in Reqs |-> <<>>]
    /\ resp = [r \in Reqs |-> 0]
    /\ handlers = [r \in Reqs |-> <<>>]
    /\ verified = [r \in Reqs |-> <<>>]
    /\ writes = [r \in Reqs |-> {}]
    /\ call = [r \in Reqs |-> NoSessionCall]
    /\ ret = <<>>

\* prisma.whatsappSession.findFirst({ where: { id: sessionId, userId } })
FindOwned(table, sessionId, userId) ==
    LET hits == {i \in 1..Len(table) :
                    table[i].id = sessionId /\ table[i].userId = userId}
    IN  IF hits = {} THEN <<>> ELSE <<table[CHOOSE i \in hits : TRUE]>>

\* prisma.whatsappSession.findMany({ where: { userId } })
FindManyOwned(table, userId) ==
    LET Mine(row) == row.userId = userId IN SelectSeq(table, Mine)

\* A session route, from the arrival of the request to its first await.
\* getSession parses the route parameter before it looks the session up.
OwnerStart(r) ==
    /\ pc[r] \in {"idle", "done"}
    /\ Len(outbox) < MaxProviderCalls
    /\ \E operation \in OwnerOperations, userId \in {"u1", "u2"},
          sessionId \in {OwnerIds[1], OwnerIds[2], "s9"} :
         /\ ev' = [ev EXCEPT ![r] = [operation |-> operation, userId |-> userId,
                                     sessionId |-> sessionId]]
         /\ IF operation = "getSession" /\ ParseInt(sessionId) = <<>>
              THEN Respond(r, 400)
              ELSE /\ pc' = [pc EXCEPT ![r] =
                               CASE operation = "getAllSessions" -> "listFind"
                                 [] operation = "getSession" -> "getFind"
                                 [] operation = "deleteSession" -> "deleteFind"
                                 [] operation = "connectSession" -> "connectFind"
                                 [] OTHER -> "qrFind"]
                   /\ resp' = [resp EXCEPT ![r] = 0]
    /\ call' = [call EXCEPT ![r] = NoSessionCall]
    /\ lookup' = [lookup EXCEPT ![r] = "none"]
    /\ sess' = [sess EXCEPT ![r] = <<>>]
    /\ writes' = [writes EXCEPT ![r] = {}]
    /\ ret' = <<>>
    /\ UNCHANGED <<sessions, users, accounts, clinicSetting, client, messages, outbox,
                   handlers, verified>>

\* getAllSessions, from the answer of findMany to the response.
GetAllSessions(r) ==
    /\ pc[r] = "listFind"
    /\ \E rejected \in BOOLEAN :
         IF rejected
           THEN /\ Respond(r, 500)
                /\ call' = [call EXCEPT ![r].failed = "store"]
                /\ UNCHANGED ret
           ELSE /\ Respond(r, 200)
                /\ ret' = FindManyOwned(sessions, ev[r].userId)
                /\ UNCHANGED call
    /\ UNCHANGED <<sessions, users, accounts, clinicSetting, client, messages, outbox,
                   ev, lookup, sess, handlers, verified, writes>>

\* getSession and getQRCode, from the answer of findFirst to the call of the
\* provider.
ProviderFind(r) ==
    /\ pc[r] \in {"getFind", "qrFind"}
    /\ \E rejected \in BOOLEAN :
         LET found == FindOwned(sessions, ev[r].sessionId, ev[r].userId)
         IN  IF rejected
               THEN /\ Respond(r, 500)
                    /\ call' = [call EXCEPT ![r].failed = "store"]
                    /\ UNCHANGED <<sess, client, outbox>>
             ELSE IF found = <<>>
               THEN /\ Respond(r, 404)
                    /\ UNCHANGED <<call, sess, client, outbox>>
             ELSE IF pc[r] = "qrFind" /\ ParseInt(found[1].sessionId) = <<>>
               THEN /\ Respond(r, 400)
                    /\ UNCHANGED <<call, sess, client, outbox>>
             ELSE /\ pc' = [pc EXCEPT ![r] = IF pc[r] = "getFind" THEN "getProvider"
                                             ELSE "qrProvider"]
                  /\ sess' = [sess EXCEPT ![r] = found]
                  /\ call' = [call EXCEPT ![r].provider = 1]
                  /\ client' = WithAuthorization(found[1].apiKey)
                  /\ outbox' = Append(outbox,
                                   ProviderCall(r, ev[r].operation,
                                                WithAuthorization(found[1].apiKey).authorization))
                  /\ UNCHANGED resp
    /\ UNCHANGED <<sessions, users, accounts, clinicSetting, messages, ev, lookup,
                   handlers, verified, writes, ret>>

\* getSession and getQRCode, from the provider's answer to the response.
\* getSession takes any answer that is not empty, getQRCode a success with
\* data.
ProviderRead(r) ==
    /\ pc[r] \in {"getProvider", "qrProvider"}
    /\ \E answer \in ProviderAnswers :
         /\ lookup' = [lookup EXCEPT ![r] = answer.kind]
         /\ IF \/ answer.kind \in {"throw", "null"}
               \/ pc[r] = "qrProvider" /\ NotSuccessWithData(answer)
              THEN /\ Respond(r, 500)
                   /\ call' = [call EXCEPT ![r].failed = "provider"]
              ELSE /\ Respond(r, 200)
                   /\ UNCHANGED call
    /\ UNCHANGED <<sessions, users, accounts, clinicSetting, client, messages, outbox,
                   ev, sess, handlers, verified, writes, ret>>

\* deleteSession, from the answer of findFirst to the delete.
OwnerDeleteFind(r) ==
    /\ pc[r] = "deleteFind"
    /\ \E rejected \in BOOLEAN :
         LET found == FindOwned(sessions, ev[r].sessionId, ev[r].userId)
         IN  IF rejected
               THEN /\ Respond(r, 500)
                    /\ call' = [call EXCEPT ![r].failed = "store"]
                    /\ UNCHANGED sess
             ELSE IF found = <<>>
               THEN /\ Respond(r, 404)
                    /\ UNCHANGED <<call, sess>>
             ELSE /\ pc' = [pc EXCEPT ![r] = "deleteRow"]
                  /\ sess' = [sess EXCEPT ![r] = found]
                  /\ UNCHANGED <<resp, call>>
    /\ UNCHANGED <<sessions, users, accounts, clinicSetting, client, messages, outbox,
                   ev, lookup, handlers, verified, writes, ret>>

\* deleteSession, the delete with its cascade and the response.
OwnerDeleteRow(r) ==
    /\ pc[r] = "deleteRow"
    /\ \E rejected \in BOOLEAN :
         IF rejected
           THEN /\ Respond(r, 500)
                /\ call' = [call EXCEPT ![r].failed = "store"]
                /\ UNCHANGED <<sessions, messages, writes>>
           ELSE /\ sessions' = DeleteSessionRow(sessions, ev[r].sessionId)
                /\ messages' = CascadeMessages(messages, ev[r].sessionId)
                /\ writes' = [writes EXCEPT ![r] = @ \cup {ev[r].sessionId}]
                /\ Respond(r, 200)
                /\ UNCHANGED call
    /\ UNCHANGED <<users, accounts, clinicSetting, client, outbox, ev, lookup, sess,
                   handlers, verified, ret>>

NextOwner ==
    \E r \in Reqs :
        \/ OwnerStart(r)
        \/ GetAllSessions(r)
        \/ ProviderFind(r)
        \/ ProviderRead(r)
        \/ OwnerDeleteFind(r)
        \/ OwnerDeleteRow(r)
        \/ ConnectFind(r)
        \/ ConnectAnswer(r)
        \/ ConnectUpdate(r)

SpecOwner == InitOwner /\ [][NextOwner]_vars

----------------------------------------------------------------------------
\* Text.  A JavaScript string that the code searches, lower-cases, trims or
\* filters is the sequence of its UTF-16 code units; a string that is only
\* stored, compared or concatenated stays a string.

\* String.prototype.toLowerCase, on the letters A-Z (Arabic has no case).
ToLowerCase(text) ==
    [i \in 1..Len(text) |-> IF text[i] \in 65..90 THEN text[i] + 32 ELSE text[i]]

\* The white space String.prototype.trim removes: tab, LF, VT, FF, CR, space.
IsSpace(c) == c \in {9, 10, 11, 12, 13, 32}

\* String.prototype.trim
Trim(text) ==
    LET inked == {i \in 1..Len(text) : ~IsSpace(text[i])}
    IN  IF inked = {} THEN <<>>
        ELSE SubSeq(text,
                    CHOOSE i \in inked : \A j \in inked : i <= j,
                    CHOOSE i \in inked : \A j \in inked : i >= j)

\* String.prototype.includes
Includes(text, part) ==
    \E i \in 0..(Len(text) - Len(part)) : SubSeq(text, i + 1, i + Len(part)) = part

\* /[\u0600-\u06FF]/.test(text)
HasArabicBlock(text) == \E i \in 1..Len(text) : text[i] \in 1536..1791

\* /[\u0623-\u064A]/.test(text)
HasArabicLetter(text) == \E i \in 1..Len(text) : text[i] \in 1571..1610

\* A language choice that tests for the Arabic letters the intent triggers
\* test for, not for the Arabic block.
DetermineByLetter(content, preference) ==
    IF preference \in {"ar", "bilingual"} /\ HasArabicLetter(content) THEN "ar" ELSE "en"

\* determineLanguage
DetermineLanguage(content, preference) ==
    IF preference \in {"ar", "bilingual"} /\ HasArabicBlock(content) THEN "ar" ELSE "en"

\* The trigger words of the seven if-statements of generateBotResponse, in
\* Latin and in Arabic script.
\* hi, hello, start, help
MenuWords ==
    { <<104, 105>>,
      <<104, 101, 108, 108, 111>>,
      <<115, 116, 97, 114, 116>>,
      <<104, 101, 108, 112>> }

\* marhaban, as-salam, ahlan (transliterated)
MenuWordsAr ==
    { <<1605, 1585, 1581, 1576, 1575>>,
      <<1575, 1604, 1587, 1604, 1575, 1605>>,
      <<1575, 1607, 1604, 1575>> }

\* location, address, where
LocationWords ==
    { <<108, 111, 99, 97, 116, 105, 111, 110>>,
      <<97, 100, 100, 114, 101, 115, 115>>,
      <<119, 104, 101, 114, 101>> }

\* unwan, makan, ayn (transliterated)
LocationWordsAr ==
    { <<1593, 1606, 1608, 1575, 1606>>,
      <<1605, 1603, 1575, 1606>>,
      <<1575, 1610, 1606>> }

\* hours, time, open, close
HoursWords ==
    { <<104, 111, 117, 114, 115>>,
      <<116, 105, 109, 101>>,
      <<111, 112, 101, 110>>,
      <<99, 108, 111, 115, 101>> }

\* sa'at, waqt, yaftah (transliterated)
HoursWordsAr ==
    { <<1587, 1575, 1593, 1575, 1578>>,
      <<1608, 1602, 1578>>,
      <<1610, 1601, 1578, 1581>> }

\* price, cost, service, list
ServicesWords ==
    { <<112, 114, 105, 99, 101>>,
      <<99, 111, 115, 116>>,
      <<115, 101, 114, 118, 105, 99, 101>>,
      <<108, 105, 115, 116>> }

\* si'r, taklifa, khidma (transliterated)
ServicesWordsAr ==
    { <<1587, 1593, 1585>>,
      <<1578, 1603, 1604, 1601, 1577>>,
      <<1582, 1583, 1605, 1577>> }

\* book, appointment, schedule
BookingWords ==
    { <<98, 111, 111, 107>>,
      <<97, 112, 112, 111, 105, 110, 116, 109, 101, 110, 116>>,
      <<115, 99, 104, 101, 100, 117, 108, 101>> }

\* hajz, mi'ad, jadwala (transliterated)
BookingWordsAr ==
    { <<1581, 1580, 1586>>,
      <<1605, 1610, 1593, 1575, 1583>>,
      <<1580, 1583, 1608, 1604, 1577>> }

\* call, contact, phone
ContactWords ==
    { <<99, 97, 108, 108>>,
      <<99, 111, 110, 116, 97, 99, 116>>,
      <<112, 104, 111, 110, 101>> }

\* ittasil, hatif, ittisal (transliterated)
ContactWordsAr ==
    { <<1575, 1578, 1589, 1604>>,
      <<1607, 1575, 1578, 1601>>,
      <<1575, 1578, 1589, 1575, 1604>> }

\* human, agent, speak, talk
HumanWords ==
    { <<104, 117, 109, 97, 110>>,
      <<97, 103, 101, 110, 116>>,
      <<115, 112, 101, 97, 107>>,
      <<116, 97, 108, 107>> }

\* insan, wakil, tahaddath (transliterated)
HumanWordsAr ==
    { <<1575, 1606, 1587, 1575, 1606>>,
      <<1608, 1603, 1610, 1604>>,
      <<1578, 1581, 1583, 1579>> }

\* One of the if-conditions of generateBotResponse: a Latin trigger in the
\* normalized text, or an Arabic letter in the text and an Arabic trigger in
\* the normalized text.
Triggered(content, normalizedContent, words, wordsAr) ==
    \/ \E w \in words : Includes(normalizedContent, w)
    \/ /\ HasArabicLetter(content)
       /\ \E w \in wordsAr : Includes(normalizedContent, w)

\* What a call gives its caller: the lines of the returned string, or an
\* exception.
Returned(lines) == [ok |-> TRUE, lines |-> lines]

Thrown == [ok |-> FALSE, lines |-> <<>>]

\* The fixed texts.  The Arabic literals are named by their English meaning.
DefaultGreetingEn == "Hello! Welcome to our dental clinic. How can we help you today?"

DefaultGreetingAr == "[ar] Hello! Welcome to our dental clinic. How can we help you today?"

MenuEn ==
    <<"", "Please choose one of the following options:", "Location",
      "Working Hours", "Prices & Services", "Book Appointment", "Call Us",
      "Talk to Human">>

MenuAr ==
    <<"", "[ar] Please choose one of the following options:", "[ar] Location",
      "[ar] Working Hours", "[ar] Prices & Services", "[ar] Book Appointment",
      "[ar] Call Us", "[ar] Talk to Human">>

NoAddress == " clinic address information is not available."

NoHoursEn == "Working hours are not currently available."

NoHoursAr == "[ar] Working hours are not currently available."

NoServicesEn == "Service list is not currently available."

NoServicesAr == "[ar] Service list is not currently available."

BookingText == "To book an appointment, please provide the service you need and your preferred date and time. For example: \"I want to book a cleaning for tomorrow at 10 AM.\""

HumanText == "A human agent will contact you shortly."

NotUnderstoodEn == "Sorry, I didn't understand your request. Please use the menu below for assistance."

NotUnderstoodAr == "[ar] Sorry, I didn't understand your request. Please use the menu below for assistance."

\* generateMainMenu
GenerateMainMenu(language, clinicSettings) ==
    LET greeting ==
            IF language = "ar"
              THEN IF Truthy(clinicSettings.greetingMessageAr)
                     THEN clinicSettings.greetingMessageAr ELSE DefaultGreetingAr
              ELSE IF Truthy(clinicSettings.greetingMessageEn)
                     THEN clinicSettings.greetingMessageEn ELSE DefaultGreetingEn
    IN  <<greeting>> \o (IF language = "ar" THEN MenuAr ELSE MenuEn)

\* day.charAt(0).toUpperCase() + day.slice(1), on the day names in use.
Capitalize(day) ==
    CASE day = "monday" -> "Monday"
      [] day = "tuesday" -> "Tuesday"
      [] day = "wednesday" -> "Wednesday"
      [] OTHER -> day

\* JSON.parse(clinicSettings.workingHours): a stored value is null, a string
\* or an object.  A string parses to the entries it encodes, in their order,
\* when it is JSON text of an object; anything else is converted to a string
\* that is no JSON text, and the parse throws.
JsonParse(value) ==
    IF value.type = "string" /\ value.valid THEN Returned(value.entries) ELSE Thrown

\* A loop that adds a line for a day with an open or a close value.
RECURSIVE EitherHoursLines(_, _)
EitherHoursLines(entries, from) ==
    IF from > Len(entries) THEN <<>>
    ELSE LET time == entries[from]
             line == Capitalize(time.day) \o ": " \o time.open \o " - " \o time.close
         IN  (IF Truthy(time.open) \/ Truthy(time.close) THEN <<line>> ELSE <<>>)
             \o EitherHoursLines(entries, from + 1)

\* The lines the loop of getWorkingHours adds for the entries from `from` on.
RECURSIVE HoursLines(_, _)
HoursLines(entries, from) ==
    IF from > Len(entries) THEN <<>>
    ELSE LET time == entries[from]
             line == Capitalize(time.day) \o ": " \o time.open \o " - " \o time.close
         IN  (IF Truthy(time.open) /\ Truthy(time.close) THEN <<line>> ELSE <<>>)
             \o HoursLines(entries, from + 1)

\* getWorkingHours
GetWorkingHours(language, clinicSettings) ==
    LET stored == clinicSettings.workingHours IN
    IF stored.type = "null" \/ (stored.type = "string" /\ stored.empty)
      THEN Returned(<<IF language = "ar" THEN NoHoursAr ELSE NoHoursEn>>)
    ELSE IF ~JsonParse(stored).ok THEN Thrown
    ELSE Returned(<<IF language = "ar" THEN "[ar] Working Hours:" ELSE "Working Hours:">>
                  \o HoursLines(JsonParse(stored).lines, 1))

\* One line of generateServicesList.
ServiceLine(language, service, userCurrency) ==
    LET name == IF language = "ar" /\ Truthy(service.nameAr)
                  THEN service.nameAr ELSE service.nameEn
        currency == IF Truthy(userCurrency) THEN userCurrency ELSE "USD"
    IN  "- " \o name \o ": " \o ToString(service.price) \o " " \o currency
             \o " (" \o ToString(service.duration) \o " mins)"

\* generateServicesList.  Reading clinicSettings.user.currency throws when the
\* settings carry no user.
GenerateServicesList(language, clinicSettings) ==
    IF Len(clinicSettings.services) = 0
      THEN Returned(<<IF language = "ar" THEN NoServicesAr ELSE NoServicesEn>>)
    ELSE IF ~clinicSettings.hasUser THEN Thrown
    ELSE Returned(<<IF language = "ar" THEN "[ar] Our Services:" ELSE "Our Services:">>
                  \o [i \in 1..Len(clinicSettings.services) |->
                        ServiceLine(language, clinicSettings.services[i],
                                    clinicSettings.user.currency)])

\* A find that returns the last rule whose keyword the text includes.
LastMatchedKeyword(customKeywords, normalizedContent) ==
    LET hits == {i \in 1..Len(customKeywords) :
                    Includes(normalizedContent, ToLowerCase(customKeywords[i].keyword))}
    IN  IF hits = {} THEN <<>>
        ELSE <<customKeywords[CHOOSE i \in hits : \A j \in hits : i >= j]>>

\* customKeywords.find(...): the first rule whose lower-cased keyword the
\* normalized text includes, <<>> when there is none.
MatchedKeyword(customKeywords, normalizedContent) ==
    LET hits == {i \in 1..Len(customKeywords) :
                    Includes(normalizedContent, ToLowerCase(customKeywords[i].keyword))}
    IN  IF hits = {} THEN <<>>
        ELSE <<customKeywords[CHOOSE i \in hits : \A j \in hits : i <= j]>>

\* A responder with conversation state: once a message is stored it hands
\* over to a human instead of answering.
StatefulBotResponse(content, clinicSettings, language, senderNumber) ==
    IF Len(messages) > 0
      THEN Returned(<<HumanText>>)
      ELSE Returned(GenerateMainMenu(language, clinicSettings))

\* A responder that looks at the greeting triggers before the keyword rules.
MenuFirstBotResponse(content, clinicSettings, language, senderNumber) ==
    LET normalizedContent == Trim(ToLowerCase(content))
        matchedKeyword == MatchedKeyword(clinicSettings.customKeywords, normalizedContent)
    IN  IF Triggered(content, normalizedContent, MenuWords, MenuWordsAr)
          THEN Returned(GenerateMainMenu(language, clinicSettings))
        ELSE IF matchedKeyword # <<>>
          THEN Returned(<<IF language = "ar" /\ Truthy(matchedKeyword[1].responseAr)
                            THEN matchedKeyword[1].responseAr
                            ELSE matchedKeyword[1].responseEn>>)
        ELSE Returned(<<IF language = "ar" THEN NotUnderstoodAr ELSE NotUnderstoodEn>>)

\* A responder that looks at the contact triggers before the booking ones.
ContactFirstBotResponse(content, clinicSettings, language, senderNumber) ==
    LET normalizedContent == Trim(ToLowerCase(content))
        matchedKeyword == MatchedKeyword(clinicSettings.customKeywords, normalizedContent)
        Hit(words, wordsAr) == Triggered(content, normalizedContent, words, wordsAr)
    IN  IF matchedKeyword # <<>>
          THEN Returned(<<IF language = "ar" /\ Truthy(matchedKeyword[1].responseAr)
                            THEN matchedKeyword[1].responseAr
                            ELSE matchedKeyword[1].responseEn>>)
        ELSE IF Hit(MenuWords, MenuWordsAr)
          THEN Returned(GenerateMainMenu(language, clinicSettings))
        ELSE IF Hit(LocationWords, LocationWordsAr)
          THEN Returned(<<IF Truthy(clinicSettings.user.clinicAddress)
                            THEN clinicSettings.user.clinicAddress ELSE NoAddress>>)
        ELSE IF Hit(HoursWords, HoursWordsAr)
          THEN GetWorkingHours(language, clinicSettings)
        ELSE IF Hit(ServicesWords, ServicesWordsAr)
          THEN GenerateServicesList(language, clinicSettings)
        ELSE IF Hit(ContactWords, ContactWordsAr)
          THEN Returned(<<"You can call us at: "
                          \o (IF Truthy(clinicSettings.user.clinicPhone)
                                THEN clinicSettings.user.clinicPhone
                                ELSE "Phone number not available")>>)
        ELSE IF Hit(BookingWords, BookingWordsAr)
          THEN Returned(<<BookingText>>)
        ELSE IF Hit(HumanWords, HumanWordsAr)
          THEN Returned(<<HumanText>>)
        ELSE Returned(<<IF language = "ar" THEN NotUnderstoodAr ELSE NotUnderstoodEn>>)

\* generateBotResponse
GenerateBotResponse(content, clinicSettings, language, senderNumber) ==
    LET normalizedContent == Trim(ToLowerCase(content))
        matchedKeyword == MatchedKeyword(clinicSettings.customKeywords, normalizedContent)
        Hit(words, wordsAr) == Triggered(content, normalizedContent, words, wordsAr)
    IN  IF matchedKeyword # <<>>
          THEN Returned(<<IF language = "ar" /\ Truthy(matchedKeyword[1].responseAr)
                            THEN matchedKeyword[1].responseAr
                            ELSE matchedKeyword[1].responseEn>>)
        ELSE IF Hit(MenuWords, MenuWordsAr)
          THEN Returned(GenerateMainMenu(language, clinicSettings))
        ELSE IF Hit(LocationWords, LocationWordsAr)
          THEN IF ~clinicSettings.hasUser THEN Thrown
               ELSE Returned(<<IF Truthy(clinicSettings.user.clinicAddress)
                                 THEN clinicSettings.user.clinicAddress ELSE NoAddress>>)
        ELSE IF Hit(HoursWords, HoursWordsAr)
          THEN GetWorkingHours(language, clinicSettings)
        ELSE IF Hit(ServicesWords, ServicesWordsAr)
          THEN GenerateServicesList(language, clinicSettings)
        ELSE IF Hit(BookingWords, BookingWordsAr)
          THEN Returned(<<BookingText>>)
        ELSE IF Hit(ContactWords, ContactWordsAr)
          THEN IF ~clinicSettings.hasUser THEN Thrown
               ELSE Returned(<<"You can call us at: "
                               \o (IF Truthy(clinicSettings.user.clinicPhone)
                                     THEN clinicSettings.user.clinicPhone
                                     ELSE "Phone number not available")>>)
        ELSE IF Hit(HumanWords, HumanWordsAr)
          THEN Returned(<<HumanText>>)
        ELSE Returned(<<IF language = "ar" THEN NotUnderstoodAr ELSE NotUnderstoodEn>>)

\* to.replace(/[^\d+]/g, ''): the digits and plus signs of the recipient.
CleanTo(to) ==
    LET Kept(c) == c \in 48..57 \/ c = 43 IN SelectSeq(to, Kept)

\* The texts of the unit specification.
Texts ==
    { <<104, 105>>,  \* hi
      <<72, 101, 108, 108, 111, 32, 116, 104, 101, 114, 101>>,  \* Hello there
      <<32, 32, 72, 69, 76, 80, 32, 32>>,  \* '  HELP  '
      <<73, 32, 110, 101, 101, 100, 32, 104, 101, 108, 112, 32, 119, 105, 116, 104, 32, 105, 110, 115, 117, 114, 97, 110, 99, 101>>,  \* I need help with insurance
      <<119, 104, 97, 116, 32, 105, 115, 32, 116, 104, 101, 32, 112, 114, 105, 99, 101, 32, 108, 105, 115, 116>>,  \* what is the price list
      <<80, 82, 73, 67, 69, 63>>,  \* PRICE?
      <<119, 104, 101, 114, 101, 32, 97, 114, 101, 32, 121, 111, 117>>,  \* where are you
      <<111, 112, 101, 110, 105, 110, 103, 32, 104, 111, 117, 114, 115>>,  \* opening hours
      <<98, 111, 111, 107, 32, 97, 32, 116, 105, 109, 101>>,  \* book a time
      <<99, 97, 108, 108, 32, 116, 111, 32, 98, 111, 111, 107>>,  \* call to book
      <<116, 97, 108, 107, 32, 116, 111, 32, 97, 103, 101, 110, 116>>,  \* talk to agent
      <<112, 104, 111, 110, 101>>,  \* phone
      <<116, 104, 105, 115>>,  \* this
      <<120, 121, 122>>,  \* xyz
      <<>>,  \* the empty text
      <<105, 110, 115, 117, 114, 97, 110, 99, 101>>,  \* insurance
      <<97, 100, 100, 114, 101, 115, 115, 32, 97, 110, 100, 32, 112, 114, 105, 99, 101>>,  \* address and price
      <<1605, 1585, 1581, 1576, 1575>>,  \* marhaban (hello)
      <<1575, 1610, 1606, 32, 1575, 1604, 1593, 1610, 1575, 1583, 1577>>,  \* ayn al-iyada (where is the clinic)
      <<1587, 1593, 1585>>,  \* si'r (price)
      <<1588, 1603, 1585, 1575>>,  \* shukran (thanks)
      <<112, 114, 105, 99, 101, 32, 1605, 1585, 1581, 1576, 1575>>,  \* price marhaban
      <<1570>>,  \* alef with madda, U+0622
      <<1587, 1575, 1593, 1575, 1578, 32, 1575, 1604, 1593, 1605, 1604>>,  \* sa'at al-amal (working hours)
      <<1581, 1580, 1586>>,  \* hajz (booking)
      <<1575, 1578, 1589, 1604>>,  \* ittasil (call)
      <<1575, 1606, 1587, 1575, 1606>>,  \* insan (human)
      <<104, 101, 108, 112, 32, 119, 105, 116, 104, 32, 105, 110, 115, 117, 114, 97, 110, 99, 101, 32, 1570>> }  \* help with insurance + U+0622

\* "help with insurance"
HelpWithInsurance == <<104, 101, 108, 112, 32, 119, 105, 116, 104, 32, 105, 110, 115, 117, 114, 97, 110, 99, 101>>

\* "Price"
PriceWord == <<80, 114, 105, 99, 101>>

\* "insurance"
InsuranceWord == <<105, 110, 115, 117, 114, 97, 110, 99, 101>>

\* "201001@s.whatsapp.net"
SenderJid == <<50, 48, 49, 48, 48, 49, 64, 115, 46, 119, 104, 97, 116, 115, 97, 112, 112, 46, 110, 101, 116>>

\* "+20 100-200"
SenderPlus == <<43, 50, 48, 32, 49, 48, 48, 45, 50, 48, 48>>

\* "+20+100200"
SenderTwoPlus == <<43, 50, 48, 43, 49, 48, 48, 50, 48, 48>>

\* Stored values of ClinicSetting.workingHours.
NoHours == [type |-> "null", valid |-> FALSE, empty |-> FALSE, entries |-> <<>>]

EmptyHoursText == [type |-> "string", valid |-> FALSE, empty |-> TRUE, entries |-> <<>>]

\* The JSONB column holding the schedule itself, read back as an object.
HoursObject(entries) ==
    [type |-> "object", valid |-> FALSE, empty |-> FALSE, entries |-> entries]

HoursText(entries) ==
    [type |-> "string", valid |-> TRUE, empty |-> FALSE, entries |-> entries]

Day(day, open, close) == [day |-> day, open |-> open, close |-> close]

\* {monday: {open: "09:00", close: "17:00"}, tuesday: {}}
WeekA == <<Day("monday", "09:00", "17:00"), Day("tuesday", Undefined, Undefined)>>

\* {monday: {open: "09:00"}, tuesday: {open: "10:00", close: "14:00"},
\*  wednesday: {open: "", close: "18:00"}}
WeekB ==
    <<Day("monday", "09:00", Undefined), Day("tuesday", "10:00", "14:00"),
      Day("wednesday", "", "18:00")>>

\* Rows of Service and CustomKeyword.
Cleaning ==
    [nameEn |-> "Cleaning", nameAr |-> "[ar] Cleaning", price |-> 50,
     currency |-> "USD", duration |-> 30]

Whitening ==
    [nameEn |-> "Whitening", nameAr |-> Undefined, price |-> 120,
     currency |-> "EUR", duration |-> 45]

InsuranceRule ==
    [keyword |-> HelpWithInsurance, responseEn |-> "We accept most insurance plans.",
     responseAr |-> Undefined]

PriceRule ==
    [keyword |-> PriceWord, responseEn |-> "Ask the front desk for prices.",
     responseAr |-> "[ar] Ask the front desk for prices."]

PlansRule ==
    [keyword |-> InsuranceWord, responseEn |-> "See our plans.",
     responseAr |-> "[ar] See our plans."]

ClinicUser(address, phone, currency) ==
    [clinicAddress |-> address, clinicPhone |-> phone, currency |-> currency]

\* Clinic settings as generateBotResponse reads them: the ClinicSetting row
\* with its services, its customKeywords and its user.
Settings(greetingEn, greetingAr, hours, services, keywords, user) ==
    [greetingMessageEn |-> greetingEn, greetingMessageAr |-> greetingAr,
     workingHours |-> hours, services |-> services, customKeywords |-> keywords,
     hasUser |-> TRUE, user |-> user]

ClinicConfigs ==
    { Settings("Welcome!", "[ar] Welcome!", NoHours, <<>>, <<>>,
               ClinicUser("1 Main St", "+100", "USD")),
      Settings(Undefined, Undefined, HoursText(WeekA), <<Cleaning>>, <<InsuranceRule>>,
               ClinicUser("1 Main St", "+100", "USD")),
      Settings("Welcome!", "[ar] Welcome!", HoursText(WeekB), <<Cleaning, Whitening>>,
               <<PriceRule, PlansRule>>, ClinicUser(Undefined, Undefined, Undefined)),
      Settings("Welcome!", Undefined, EmptyHoursText, <<Whitening>>, <<>>,
               ClinicUser("2 Nile Rd", "+200", "SAR")),
      Settings("Welcome!", "[ar] Welcome!", HoursText(<<>>), <<Whitening, Cleaning>>,
               <<PlansRule, InsuranceRule>>, ClinicUser("1 Main St", "+100", "USD")),
      Settings("Welcome!", "[ar] Welcome!", HoursObject(WeekA), <<Cleaning>>, <<>>,
               ClinicUser("1 Main St", "+100", "USD")) }

Preferences == {"ar", "bilingual", "en", Undefined}

\* The arguments of processIncomingMessage: the saved message and a session
\* that carries the clinic settings the function reads.
ProcessInputs ==
    { [message |-> [content |-> text, senderNumber |-> sender],
       session |-> [id |-> "s1", apiKey |-> "key1",
                    user |-> [languagePreference |-> preference],
                    clinicSettings |-> settings]] :
        text \in Texts, sender \in {SenderJid, SenderPlus, SenderTwoPlus},
        preference \in Preferences, settings \in ClinicConfigs }

\* if (responseMessage)
HasReply(reply) == reply.ok /\ reply.lines # <<>> /\ reply.lines # <<"">>

\* processIncomingMessage up to the send: the language, the reply and whether
\* the reply goes to sendWhatsAppMessage.
ProcessOutcome(message, session) ==
    IF ProcessStart(session) = "return"
      THEN [language |-> "none", reply |-> Thrown, send |-> FALSE]
      ELSE LET language == DetermineLanguage(message.content,
                                             session.user.languagePreference)
               reply == GenerateBotResponse(message.content, session.clinicSettings,
                                            language, message.senderNumber)
           IN  [language |-> language, reply |-> reply, send |-> HasReply(reply)]

\* A send that logs the transport's error and returns.
SwallowedSendOutcome(delivered) == "return"

\* sendWhatsAppMessage towards its caller: the transport's error is logged
\* and thrown again.
SendOutcome(delivered) == IF delivered THEN "return" ELSE "throw"

\* processIncomingMessage and its callers after the reply was computed:
\* `sent` is how sendWhatsAppMessage ended ("none" when it was not called),
\* `exit` how processIncomingMessage ended behind its try/catch, `code` the
\* status handleWebhook answers with once handleMessagesReceived is back.
ProcessResult(out, delivered) ==
    LET sent == IF out.send THEN SendOutcome(delivered) ELSE "none"
        body == IF ~out.reply.ok \/ sent = "throw" THEN "throw" ELSE "return"
        exit == Caught(body)
    IN  [language |-> out.language, reply |-> out.reply, send |-> out.send,
         sent |-> sent, exit |-> exit, code |-> ExitCode(Caught(exit))]

\* sendWhatsAppMessage: the payload that reaches the transport.
SendPayload(r, apiKey, to, lines, delivered) ==
    [by |-> r, apiKey |-> apiKey, to |-> CleanTo(to), text |-> lines,
     delivered |-> delivered]

----------------------------------------------------------------------------
\* The unit specification of processIncomingMessage: the function is called
\* on a message and a session, up to MaxCalls times on the same arguments,
\* while other inbound messages are stored in between.

InitProcess ==
    /\ sessions = InitSessions
    /\ users = InitUsers
    /\ accounts = <<>>
    /\ clinicSetting = <<>>
    /\ client = NoClient
    /\ messages = <<>>
    /\ outbox = <<>>
    /\ pc = [r \in Reqs |-> "idle"]
    /\ ev = [r \in Reqs |-> Blank]
    /\ lookup = [r \in Reqs |-> "none"]
    /\ sess = [r \in Reqs |-> <<>>]
    /\ resp = [r \in Reqs |-> 0]
    /\ handlers = [r \in Reqs |-> <<>>]
    /\ verified = [r \in Reqs |-> <<>>]
    /\ writes = [r \in Reqs |-> {}]
    /\ call \in ProcessInputs
    /\ ret = <<>>

\* processIncomingMessage(call.message, call.session); the transport accepts
\* the reply or fails, and the failure is caught and logged.
ProcessIncoming(r) ==
    /\ Len(ret) < MaxCalls
    /\ LET out == ProcessOutcome(call.message, call.session) IN
       /\ \E delivered \in BOOLEAN :
            /\ ret' = Append(ret, ProcessResult(out, delivered))
            /\ outbox' = IF out.send
                           THEN Append(outbox,
                                    SendPayload(r, call.session.apiKey,
                                                call.message.senderNumber,
                                                out.reply.lines, delivered))
                           ELSE outbox
    /\ UNCHANGED <<sessions, users, accounts, clinicSetting, client, messages, pc, ev,
                   lookup, sess, resp,
                   handlers, verified, writes, call>>

\* Another inbound message is stored.
RecordOther ==
    /\ Len(messages) < MaxMsgs
    /\ messages' = CreateRow(messages, JoinUser(sessions[1], users),
                             [TextData EXCEPT !.signature = "sec1",
                                              !.event = "messages.received"])
    /\ UNCHANGED <<sessions, users, accounts, clinicSetting, client, outbox, pc, ev,
                   lookup, sess, resp,
                   handlers, verified, writes, call, ret>>

NextProcess ==
    \/ \E r \in Reqs : ProcessIncoming(r)
    \/ RecordOther

SpecProcess == InitProcess /\ [][NextProcess]_vars

----------------------------------------------------------------------------
\* The unit specification of verifyWebhookSignature: the function is called
\* directly on a body, a signature header and a stored secret.

VerifyInputs ==
    [body : {Blank, TextData},
     signature : {Undefined, "", "sec1", "sec2", "sec3", "bogus"},
     secret : {Undefined, "", "sec1", "sec2", "sec3"}]

InitVerify ==
    /\ sessions = InitSessions
    /\ users = InitUsers
    /\ accounts = <<>>
    /\ clinicSetting = <<>>
    /\ client = NoClient
    /\ messages = <<>>
    /\ outbox = <<>>
    /\ pc = [r \in Reqs |-> "idle"]
    /\ ev = [r \in Reqs |-> Blank]
    /\ lookup = [r \in Reqs |-> "none"]
    /\ sess = [r \in Reqs |-> <<>>]
    /\ resp = [r \in Reqs |-> 0]
    /\ handlers = [r \in Reqs |-> <<>>]
    /\ verified = [r \in Reqs |-> <<>>]
    /\ writes = [r \in Reqs |-> {}]
    /\ call \in VerifyInputs
    /\ ret = <<>>

CallVerify ==
    /\ ret = <<>>
    /\ ret' = <<VerifyWebhookSignature(call.body, call.signature, call.secret)>>
    /\ UNCHANGED <<sessions, users, accounts, clinicSetting, client, messages, outbox,
                   pc, ev, lookup, sess, resp,
                   handlers, verified, writes, call>>

SpecVerify == InitVerify /\ [][CallVerify]_vars

----------------------------------------------------------------------------
\* Properties.

\* Transport calls made by request r.
SentBy(r) == {i \in 1..Len(outbox) : outbox[i].by = r}

\* Request r has run a handler, written a Message row or sent a reply.
Acted(r) == handlers[r] # <<>> \/ writes[r] # {} \/ SentBy(r) # {}

\* C1: a request whose body has no event field, or that carries no
\* X-Webhook-Signature header, is answered 400 at once, creates or modifies
\* no Message row and sends no reply, whatever else it contains.
C1_MalformedRejected ==
    \A r \in Reqs :
        (pc[r] # "idle"
         /\ (~ev[r].body \/ ev[r].event = Undefined \/ ev[r].signature = Undefined))
        => /\ pc[r] = "done"
           /\ resp[r] = 400
           /\ ~Acted(r)

C1_Witness ==
    \E r \in Reqs :
        /\ pc[r] = "done" /\ resp[r] = 400
        /\ ev[r].event = Undefined /\ ev[r].signature = "sec1"
        /\ ExtractContent(ev[r]) = "hello"
        /\ Len(messages) > 0

\* The envelope is structurally valid and its signature is no session's secret.
UnknownSignature(e) ==
    /\ e.body /\ Truthy(e.event) /\ Truthy(e.signature)
    /\ \A i \in 1..Len(sessions) : sessions[i].webhookSecret # e.signature

\* C2: a structurally valid event whose signature equals no stored session's
\* webhook secret is answered 200 once the lookup has answered, runs no
\* handler, creates or modifies no Message row and sends no reply.
C2_UnknownTenantDropped ==
    \A r \in Reqs :
        (pc[r] # "idle" /\ UnknownSignature(ev[r]) /\ lookup[r] # "rejected")
        => /\ pc[r] \in {"resolve", "done"}
           /\ (pc[r] = "done" => resp[r] = 200)
           /\ ~Acted(r)

C2_Witness ==
    \E r \in Reqs :
        /\ pc[r] = "done" /\ resp[r] = 200 /\ lookup[r] = "null"
        /\ ev[r].signature = "bogus" /\ ev[r].event = "messages.update"
        /\ \E i \in 1..Len(messages) : messages[i].id = ev[r].keyId

\* C3: verify returns false when the signature header is absent or differs
\* from the tenant's stored secret, and true otherwise.
C3_VerifyChecksSecret ==
    ret # <<>> =>
        ret[1] = (Truthy(call.signature) /\ call.signature = call.secret)

\* C4: the signature is verified only after the tenant lookup has found a
\* session; a request runs a handler, writes a Message row or sends a reply
\* only when the lookup found the session whose secret is its signature and
\* verify returned true; a request whose verification failed is answered 403
\* and has done none of these.
C4_Gating ==
    \A r \in Reqs :
        /\ verified[r] # <<>> => lookup[r] = "found"
        /\ (Acted(r) \/ pc[r] \notin {"idle", "resolve", "done"})
            => /\ lookup[r] = "found"
               /\ sess[r] # <<>>
               /\ sess[r][1].webhookSecret = ev[r].signature
               /\ \E i \in 1..Len(sessions) :
                      /\ sessions[i].id = sess[r][1].id
                      /\ sessions[i].webhookSecret = ev[r].signature
               /\ verified[r] = <<TRUE>>
        /\ (verified[r] # <<>> /\ ~verified[r][1])
            => pc[r] = "done" /\ resp[r] = 403 /\ ~Acted(r)

C4_Witness ==
    \E r \in Reqs :
        /\ pc[r] = "done" /\ resp[r] = 200
        /\ verified[r] = <<TRUE>> /\ lookup[r] = "found"
        /\ sess[r][1].id = "s2"
        /\ handlers[r] = <<"handleMessagesReceived">>
        /\ writes[r] # {}

\* C5: an event of a resolved tenant with an accepted signature is answered
\* 200 whatever its handler did, also when the store rejected the create or
\* the update and when the payload lacks the fields the handler needs.
C5_AbsorbedErrors ==
    \A r \in Reqs :
        (pc[r] = "done" /\ lookup[r] = "found" /\ verified[r] = <<TRUE>>)
        => resp[r] = 200

C5_Witness ==
    \E r \in Reqs :
        /\ pc[r] = "done" /\ resp[r] = 200
        /\ lookup[r] = "found" /\ verified[r] = <<TRUE>>
        /\ handlers[r] = <<"handleMessagesReceived">>
        /\ HandlerStart(ev[r]) = "create"
        /\ ev[r].remoteJid = Undefined
        /\ writes[r] = {}

\* The handlers the claim expects for an event kind.
C6_Expected(kind) ==
    CASE kind = "messages.received" -> <<"handleMessagesReceived">>
      [] kind = "message.sent" -> <<"handleMessageSent">>
      [] kind = "messages.update" -> <<"handleMessagesUpdate">>
      [] OTHER -> <<>>

\* C6: a verified event is given to exactly one handler, the one of its kind,
\* when the kind is messages.received, message.sent or messages.update, and
\* to none otherwise; an event of another kind is answered 200, writes no
\* Message row and sends nothing.
C6_Dispatch ==
    \A r \in Reqs :
        (lookup[r] = "found" /\ verified[r] = <<TRUE>>)
        => /\ handlers[r] = C6_Expected(ev[r].event)
           /\ C6_Expected(ev[r].event) = <<>>
                => pc[r] = "done" /\ resp[r] = 200 /\ ~Acted(r)

C6_Witness ==
    \E r \in Reqs :
        /\ pc[r] = "done" /\ resp[r] = 200
        /\ lookup[r] = "found" /\ verified[r] = <<TRUE>>
        /\ ev[r].event = "session.status"
        /\ ExtractContent(ev[r]) = "hello"
        /\ handlers[r] = <<>>
        /\ Len(messages) > 0

\* The status the claim expects for a numeric code.
C7_Table(code) ==
    CASE code = 0 -> "error"
      [] code = 1 -> "pending"
      [] code = 2 -> "sent"
      [] code = 3 -> "delivered"
      [] code = 4 -> "read"
      [] code = 5 -> "played"
      [] OTHER -> "unknown"

\* C7: the status a messages.update event writes to the rows it matches is
\* error for code 0, pending for 1, sent for 2, delivered for 3, read for 4,
\* played for 5 and unknown for every other code.
C7_StatusMapping ==
    \A r \in Reqs :
        (pc[r] = "done" /\ handlers[r] = <<"handleMessagesUpdate">>)
        => \A i \in 1..Len(messages) :
              messages[i].id \in writes[r]
                => messages[i].status = C7_Table(ev[r].status[1])

C7_Witness ==
    \E r \in Reqs :
        /\ pc[r] = "done" /\ handlers[r] = <<"handleMessagesUpdate">>
        /\ ev[r].status = <<99>> /\ ev[r].keyId = "m1"
        /\ writes[r] = {"m1"}
        /\ messages[1].status = "unknown"

\* The status updates the handler applies to the store.
AppliedUpdates == {e \in StatusPayloads : HandlerStart(e) = "update"}

\* C8: applying the same status update twice in a row leaves every Message
\* row as applying it once does, for every update and every table reached.
C8_Idempotent ==
    \A r \in Reqs :
        sess[r] # <<>> =>
            \A e \in AppliedUpdates :
                LET once == ApplyStatusUpdate(messages, sess[r][1], e)
                IN  ApplyStatusUpdate(once, sess[r][1], e) = once

C8_Witness ==
    \E r \in Reqs :
        /\ pc[r] = "done" /\ handlers[r] = <<"handleMessagesUpdate">>
        /\ writes[r] # {} /\ Len(messages) > 1
        /\ ev[r].keyId = "m1"
        /\ messages[1].status = "delivered"
        /\ ApplyStatusUpdate(messages, sess[r][1], ev[r]) = messages

\* Place of a status in the order pending, sent, delivered, read, played;
\* 0 for a status outside of it.
C9_Rank(status) ==
    CASE status = "pending" -> 1
      [] status = "sent" -> 2
      [] status = "delivered" -> 3
      [] status = "read" -> 4
      [] status = "played" -> 5
      [] OTHER -> 0

\* C9: no step moves a Message row from a status of the order pending, sent,
\* delivered, read, played back to an earlier status of that order.
C9_NeverRegresses ==
    [][\A i \in 1..Len(messages) :
          (C9_Rank(messages[i].status) > 0 /\ C9_Rank(messages'[i].status) > 0)
            => C9_Rank(messages'[i].status) >= C9_Rank(messages[i].status)]_vars

\* C10: a messages.update event whose correlation key is the id of no
\* Message row of the resolved tenant changes no row and is answered 200.
C10_StoreMissNoOp ==
    \A r \in Reqs :
        (/\ pc[r] = "done" /\ lookup[r] = "found"
         /\ handlers[r] = <<"handleMessagesUpdate">>
         /\ \A i \in 1..Len(messages) :
               ~(messages[i].whatsappSessionId = sess[r][1].id
                 /\ messages[i].id = ev[r].keyId))
        => writes[r] = {} /\ resp[r] = 200

\* The same for the events whose key carries an id.
C10_StoreMissWithId ==
    \A r \in Reqs :
        (/\ pc[r] = "done" /\ lookup[r] = "found"
         /\ handlers[r] = <<"handleMessagesUpdate">>
         /\ Truthy(ev[r].keyId)
         /\ \A i \in 1..Len(messages) :
               ~(messages[i].whatsappSessionId = sess[r][1].id
                 /\ messages[i].id = ev[r].keyId))
        => writes[r] = {} /\ resp[r] = 200


\* The rows the claims expect a message.sent event to match by its token,
\* and by content when it falls back.
C11_TokenRows(table, session, e) ==
    {i \in 1..Len(table) :
        /\ table[i].whatsappSessionId = session.id
        /\ table[i].direction = "outbound"
        /\ table[i].id = e.keyId}

C11_FallbackRows(table, session, e) ==
    {i \in 1..Len(table) :
        /\ table[i].whatsappSessionId = session.id
        /\ table[i].direction = "outbound"
        /\ table[i].status = "pending"
        /\ table[i].content = e.conversation}

C11_Written(table, rows, e) ==
    [i \in 1..Len(table) |->
        IF i \in rows
          THEN [table[i] EXCEPT !.status = IF e.success THEN "sent" ELSE "failed"]
          ELSE table[i]]

\* What the claim allows a step of a message.sent request to do.
C11_Step(r) ==
    /\ pc[r] = "sentById"
        => /\ \/ messages' = messages
              \/ messages' = C11_Written(messages,
                                 C11_TokenRows(messages, sess[r][1], ev[r]), ev[r])
           /\ pc'[r] = "sentFallback"
                => C11_TokenRows(messages, sess[r][1], ev[r]) = {}
    /\ pc[r] = "sentFallback"
        => \/ messages' = messages
           \/ messages' = C11_Written(messages,
                              C11_FallbackRows(messages, sess[r][1], ev[r]), ev[r])

\* C11: a message.sent event first writes sent (success) or failed to the
\* tenant's outbound row whose id is the event's key id; only when that
\* matched no row does it go on to the tenant's outbound pending rows with
\* the event's content, and writes the same status to them.
C11_MatchingOrder == [][\A r \in Reqs : C11_Step(r)]_vars

\* The same for the events whose key carries an id.
C11_MatchingOrderWithId ==
    [][\A r \in Reqs : Truthy(ev[r].keyId) => C11_Step(r)]_vars

\* The fallback has acted: the key id matched no row, and the pending
\* outbound row with the event's content is now sent.
C11_FallbackActed ==
    \E r \in Reqs :
        /\ pc[r] = "done" /\ handlers[r] = <<"handleMessageSent">>
        /\ ev[r].keyId = "m9" /\ ev[r].success
        /\ writes[r] = {"m2"}
        /\ messages[2].status = "sent" /\ messages[1].status = "pending"
        /\ messages[1].direction = "outbound" /\ messages[1].whatsappSessionId = "s1"

\* What the claim allows a step of a messages.received request to do to the
\* Message table: nothing, or one new row at its end.
C12_Appended(r) ==
    LET n == Len(messages') IN
    /\ n = Len(messages) + 1
    /\ SubSeq(messages', 1, n - 1) = messages
    /\ \A i \in 1..Len(messages) : messages[i].id # messages'[n].id
    /\ messages'[n].direction = "inbound"
    /\ messages'[n].status = "received"
    /\ messages'[n].whatsappSessionId = sess[r][1].id
    /\ messages'[n].content = ExtractContent(ev[r])
    /\ writes'[r] = {messages'[n].id}

C13_OutboundRecorded ==
    \A i \in 1..Len(outbox) :
        \E j \in 1..Len(messages) :
            /\ messages[j].direction = "outbound"
            /\ messages[j].whatsappSessionId = call.session.id

\* What the claims allow one status event, handled alone, to do: leave the
\* table as it was when the store rejected the call, or write its status to
\* the rows it matches.  `ids` are the messages written.
C14_Alone(table, e) ==
    LET session == [id |-> "s1"]
        token == C11_TokenRows(table, session, e)
        keyed == {i \in 1..Len(table) :
                    table[i].whatsappSessionId = session.id /\ table[i].id = e.keyId}
        rows == IF e.event = "message.sent"
                  THEN IF token # {} THEN token
                       ELSE C11_FallbackRows(table, session, e)
                  ELSE keyed
        status == IF e.event = "message.sent"
                    THEN IF e.success THEN "sent" ELSE "failed"
                    ELSE C7_Table(e.status[1])
    IN  { [table |-> table, ids |-> {}],
          [table |-> [i \in 1..Len(table) |->
                        IF i \in rows THEN [table[i] EXCEPT !.status = status]
                        ELSE table[i]],
           ids |-> {table[i].id : i \in rows}] }

\* The outcomes of handling event a and then event b: the table left and the
\* messages each of the two wrote.
C14_OneAfterOther(table, a, b) ==
    UNION { { [table |-> y.table, first |-> x.ids, second |-> y.ids] :
                y \in C14_Alone(x.table, b) } :
            x \in C14_Alone(table, a) }

\* C14: when two status events about the same message are handled
\* concurrently and both are answered, the Message table and the rows each
\* event wrote are those of handling the two one after the other, in one of
\* the two orders: no update is lost or applied twice, also between the id
\* match and the content fallback of message.sent.
C14_Serializable ==
    (\A r \in Racers : pc[r] = "done")
    => \/ [table |-> messages, first |-> writes[1], second |-> writes[2]]
            \in C14_OneAfterOther(call, ev[1], ev[2])
       \/ [table |-> messages, first |-> writes[2], second |-> writes[1]]
            \in C14_OneAfterOther(call, ev[2], ev[1])

\* A status update has run between the id match and the content fallback of
\* a message.sent event, and the fallback has then written its status.
C14_Witness ==
    /\ \A r \in Racers : pc[r] = "done"
    /\ ev[1].event = "message.sent" /\ ev[1].keyId = "m9" /\ ~ev[1].success
    /\ ev[2].event = "messages.update" /\ ev[2].keyId = "m1"
    /\ call[1].status = "pending" /\ call[2].content = "hello"
    /\ call[2].direction = "outbound"
    /\ writes[1] = {"m2"} /\ writes[2] = {"m1"}
    /\ messages[1].status = "delivered" /\ messages[2].status = "failed"

C16_Contains(text, keyword) ==
    LET Fold(c) == IF c \in 65..90 THEN c + 32 ELSE c
        copy == Trim([i \in 1..Len(text) |-> Fold(text[i])])
    IN  \E at \in 0..(Len(copy) - Len(keyword)) :
            \A j \in 1..Len(keyword) : copy[at + j] = Fold(keyword[j])

\* The rules of the configuration whose keyword the text contains.
C16_Rules ==
    {k \in 1..Len(call.session.clinicSettings.customKeywords) :
        C16_Contains(call.message.content,
                     call.session.clinicSettings.customKeywords[k].keyword)}

\* What a keyword rule answers in a language.
C16_Response(rule, language) ==
    IF language = "ar" /\ rule.responseAr # Undefined
      THEN rule.responseAr ELSE rule.responseEn

\* C16: keyword rules precede the built-in intents: whenever the text
\* contains, case-insensitively, the keyword of a configured rule, the reply
\* is the response of the first such rule and never a built-in reply, also
\* when the text or the keyword contains a trigger word such as help.
C16_KeywordFirst ==
    \A i \in 1..Len(ret) :
        C16_Rules # {} =>
            LET first == CHOOSE k \in C16_Rules : \A j \in C16_Rules : k <= j
            IN  ret[i].reply =
                  [ok |-> TRUE,
                   lines |-> <<C16_Response(
                                 call.session.clinicSettings.customKeywords[first],
                                 ret[i].language)>>]

\* "I need help with insurance" is answered by the rule for "help with
\* insurance", not by the menu its word help would trigger.
C16_Witness ==
    /\ Len(ret) >= 1
    /\ call.session.clinicSettings.customKeywords = <<InsuranceRule>>
    /\ Len(call.message.content) > Len(HelpWithInsurance)
    /\ C16_Contains(call.message.content, HelpWithInsurance)
    /\ \E w \in MenuWords : C16_Contains(call.message.content, w)
    /\ \E w \in MenuWords : C16_Contains(InsuranceRule.keyword, w)
    /\ ret[1].reply.lines = <<"We accept most insurance plans.">>

\* The built-in intents in their order: 1 greeting/menu, 2 location, 3 hours,
\* 4 pricing/services, 5 booking, 6 contact, 7 human handoff.  An intent
\* matches a text that holds one of its trigger words.
C17_Matches(intent, content) ==
    LET normalized == Trim(ToLowerCase(content))
    IN  CASE intent = 1 -> Triggered(content, normalized, MenuWords, MenuWordsAr)
          [] intent = 2 -> Triggered(content, normalized, LocationWords, LocationWordsAr)
          [] intent = 3 -> Triggered(content, normalized, HoursWords, HoursWordsAr)
          [] intent = 4 -> Triggered(content, normalized, ServicesWords, ServicesWordsAr)
          [] intent = 5 -> Triggered(content, normalized, BookingWords, BookingWordsAr)
          [] intent = 6 -> Triggered(content, normalized, ContactWords, ContactWordsAr)
          [] intent = 7 -> Triggered(content, normalized, HumanWords, HumanWordsAr)

\* The reply of an intent; 8 stands for no intent, answered by the default
\* string of the language.
C17_Reply(intent, language, settings) ==
    CASE intent = 1 -> [ok |-> TRUE, lines |-> GenerateMainMenu(language, settings)]
      [] intent = 2 -> [ok |-> TRUE,
                        lines |-> <<IF settings.user.clinicAddress # Undefined
                                      THEN settings.user.clinicAddress
                                      ELSE NoAddress>>]
      [] intent = 3 -> GetWorkingHours(language, settings)
      [] intent = 4 -> GenerateServicesList(language, settings)
      [] intent = 5 -> [ok |-> TRUE, lines |-> <<BookingText>>]
      [] intent = 6 -> [ok |-> TRUE,
                        lines |-> <<"You can call us at: "
                                    \o (IF settings.user.clinicPhone # Undefined
                                          THEN settings.user.clinicPhone
                                          ELSE "Phone number not available")>>]
      [] intent = 7 -> [ok |-> TRUE, lines |-> <<HumanText>>]
      [] intent = 8 -> [ok |-> TRUE,
                        lines |-> <<IF language = "ar" THEN NotUnderstoodAr
                                    ELSE NotUnderstoodEn>>]

\* The intents the text of the call triggers.
C17_Matching == {k \in 1..7 : C17_Matches(k, call.message.content)}

\* C17: when no keyword rule matches, the reply is that of the first intent,
\* in the order greeting/menu, location, hours, pricing/services, booking,
\* contact, human handoff, that the text triggers, and of that one only; a
\* text that triggers none gets the default string of the language.
C17_IntentPrecedence ==
    \A i \in 1..Len(ret) :
        C16_Rules = {} =>
            ret[i].reply =
                C17_Reply(IF C17_Matching = {} THEN 8
                          ELSE CHOOSE k \in C17_Matching : \A j \in C17_Matching : k <= j,
                          ret[i].language, call.session.clinicSettings)

\* A text with a booking and a contact trigger ("call to book") got the
\* booking reply.
C17_Witness ==
    /\ Len(ret) >= 1
    /\ C16_Rules = {}
    /\ C17_Matching = {5, 6}
    /\ ret[1].reply.lines = <<BookingText>>

\* A text that triggers nothing got the default string.
C17_WitnessDefault ==
    /\ Len(ret) >= 1
    /\ C16_Rules = {}
    /\ C17_Matching = {}
    /\ ret[1].language = "en"
    /\ ret[1].reply.lines = <<NotUnderstoodEn>>

\* The text of the call has a character of the Arabic block, U+0600..U+06FF.
C18_ArabicText ==
    \E i \in 1..Len(call.message.content) :
        call.message.content[i] >= 1536 /\ call.message.content[i] <= 1791

\* C18: the reply language is Arabic exactly when the tenant's language
\* preference is Arabic or bilingual and the inbound text has at least one
\* character of the Arabic block; in every other case, bilingual with a
\* Latin-only text included, it is English.
C18_LocaleSelection ==
    \A i \in 1..Len(ret) :
        /\ ret[i].language = "ar" <=>
             /\ call.session.user.languagePreference \in {"ar", "bilingual"}
             /\ C18_ArabicText
        /\ ret[i].language \in {"ar", "en"}

\* A bilingual tenant got an Arabic reply to a text whose only character is
\* U+0622, of the Arabic block.
C18_Witness ==
    /\ Len(ret) >= 1
    /\ call.session.user.languagePreference = "bilingual"
    /\ call.message.content = <<1570>>
    /\ ret[1].language = "ar"
    /\ ret[1].send

\* A bilingual tenant got an English reply to a Latin-only text.
C18_WitnessLatin ==
    /\ Len(ret) >= 1
    /\ call.session.user.languagePreference = "bilingual"
    /\ call.message.content # <<>>
    /\ ~C18_ArabicText
    /\ ret[1].language = "en"
    /\ ret[1].send

\* The hours intent answers the call: no keyword rule matches and hours is
\* the first intent the text triggers.
C19_HoursAsked ==
    /\ C16_Rules = {}
    /\ 3 \in C17_Matching
    /\ \A k \in C17_Matching : k >= 3

\* The line of a day: its capitalised name and "open - close".
C19_Line(day) ==
    (CASE day.day = "monday" -> "Monday"
       [] day.day = "tuesday" -> "Tuesday"
       [] day.day = "wednesday" -> "Wednesday")
    \o ": " \o day.open \o " - " \o day.close

\* One line for each day of the schedule that has an open and a close value,
\* in the schedule's order.
C19_Lines(entries) ==
    LET Both(day) == day.open \notin {Undefined, ""} /\ day.close \notin {Undefined, ""}
        days == SelectSeq(entries, Both)
    IN  [k \in 1..Len(days) |-> C19_Line(days[k])]

\* The hours reply for a stored schedule: the "not available" message of the
\* language when none is configured, else a heading and the lines of the days.
C19_Expected(stored, language) ==
    IF stored.type = "null" \/ stored.empty
      THEN [ok |-> TRUE, lines |-> <<IF language = "ar" THEN NoHoursAr ELSE NoHoursEn>>]
      ELSE [ok |-> TRUE,
            lines |-> <<IF language = "ar" THEN "[ar] Working Hours:"
                        ELSE "Working Hours:">> \o C19_Lines(stored.entries)]

\* C19: the hours reply for a configured schedule has exactly one line for
\* each day with both an open and a close value (Monday: 09:00 - 17:00) and
\* none for a day missing either (tuesday: {}); with no schedule configured
\* it is the "not available" message of the language.
C19_HoursReply ==
    \A i \in 1..Len(ret) :
        C19_HoursAsked =>
            ret[i].reply = C19_Expected(call.session.clinicSettings.workingHours,
                                        ret[i].language)

\* The same for schedules stored as JSON text, which is what the function
\* parses.
C19_HoursReplyFromText ==
    \A i \in 1..Len(ret) :
        C19_HoursAsked /\ call.session.clinicSettings.workingHours.type # "object" =>
            ret[i].reply = C19_Expected(call.session.clinicSettings.workingHours,
                                        ret[i].language)

\* The schedule {monday: {open: "09:00", close: "17:00"}, tuesday: {}} stored
\* as JSON text got a reply with the Monday line and no other.
C19_FromTextActed ==
    /\ Len(ret) >= 1
    /\ C19_HoursAsked
    /\ call.session.clinicSettings.workingHours = HoursText(WeekA)
    /\ ret[1].reply.lines = <<"Working Hours:", "Monday: 09:00 - 17:00">>

\* The pricing/services intent answers the call.
C20_ServicesAsked ==
    /\ C16_Rules = {}
    /\ 4 \in C17_Matching
    /\ \A k \in C17_Matching : k >= 4

\* The line of a catalog entry shown with a currency.
C20_Line(service, language, currency) ==
    "- " \o (IF language = "ar" /\ service.nameAr # Undefined
               THEN service.nameAr ELSE service.nameEn)
         \o ": " \o ToString(service.price) \o " " \o currency
         \o " (" \o ToString(service.duration) \o " mins)"

\* The clinic's default currency.
C20_ClinicCurrency ==
    IF call.session.clinicSettings.user.currency # Undefined
      THEN call.session.clinicSettings.user.currency ELSE "USD"

\* The services reply; `own` says whether an entry that has a currency is
\* shown with it, or every entry with the clinic's default.
C20_Expected(language, own) ==
    LET services == call.session.clinicSettings.services
    IN  IF Len(services) = 0
          THEN [ok |-> TRUE,
                lines |-> <<IF language = "ar" THEN NoServicesAr ELSE NoServicesEn>>]
          ELSE [ok |-> TRUE,
                lines |-> <<IF language = "ar" THEN "[ar] Our Services:"
                            ELSE "Our Services:">>
                          \o [k \in 1..Len(services) |->
                                C20_Line(services[k], language,
                                         IF own /\ services[k].currency # Undefined
                                           THEN services[k].currency
                                           ELSE C20_ClinicCurrency)]]

\* C20: the pricing/services reply has one line per catalog entry with the
\* name in the reply language, the price, the entry's own currency (the
\* clinic's default only when the entry has none) and the duration in
\* minutes, as in "Cleaning: 50 USD (30 mins)"; an empty catalog gives the
\* "not available" message.
C20_ServicesReply ==
    \A i \in 1..Len(ret) :
        C20_ServicesAsked => ret[i].reply = C20_Expected(ret[i].language, TRUE)

\* What the code gives: every line shows the clinic's currency, whatever the
\* entry's own.
C20_ServicesReplyClinicCurrency ==
    \A i \in 1..Len(ret) :
        C20_ServicesAsked => ret[i].reply = C20_Expected(ret[i].language, FALSE)

\* An entry priced in EUR was shown in the clinic's USD.
C20_ClinicCurrencyActed ==
    /\ Len(ret) >= 1
    /\ C20_ServicesAsked
    /\ call.session.clinicSettings.services = <<Whitening, Cleaning>>
    /\ ret[1].reply.lines = <<"Our Services:", "- Whitening: 120 USD (45 mins)",
                              "- Cleaning: 50 USD (30 mins)">>

\* Request r carried a verified messages.received event with a text, for a
\* tenant whose clinic account has a configuration, its inbound row is stored
\* and the webhook is acknowledged.
C21_Received(r) ==
    /\ pc[r] = "done"
    /\ resp[r] = 200
    /\ ev[r].event = "messages.received"
    /\ ev[r].conversation \notin {Undefined, ""}
    /\ sess[r] # <<>>
    /\ sess[r][1].user.clinicSettings.userId = sess[r][1].userId
    /\ writes[r] # {}

\* C21: for a verified messages.received event with a non-empty text, of a
\* tenant whose clinic account has a Clinic Configuration, exactly one reply
\* has been handed to the outbound dispatch when the webhook is acknowledged.
C21_ReplyHandedOver ==
    \A r \in Reqs : C21_Received(r) => Cardinality(SentBy(r)) = 1

\* C22: when the transport fails on a reply, the send throws the error on to
\* its caller, the inbound pipeline catches it and returns, the Message rows
\* stored before the send stay as they were, and the webhook is answered 200.
C22_TransportFailure ==
    [][(/\ Len(outbox') > Len(outbox)
        /\ ~outbox'[Len(outbox')].delivered)
       => /\ ret'[Len(ret')].sent = "throw"
          /\ ret'[Len(ret')].exit = "return"
          /\ ret'[Len(ret')].code = 200
          /\ messages' = messages
          /\ Len(ret') = Len(ret) + 1]_vars

\* A reply failed at the transport while an inbound row was stored.
C22_Witness ==
    /\ Len(messages) >= 1
    /\ Len(ret) >= 1
    /\ Len(outbox) = Len(ret)
    /\ ~outbox[Len(outbox)].delivered
    /\ ret[Len(ret)].sent = "throw"
    /\ ret[Len(ret)].code = 200
    /\ messages[1].status = "received"

\* C23: the recipient handed to the transport consists of digits only, with
\* at most one plus sign, which can only be its first character.
C23_RecipientNormalized ==
    \A i \in 1..Len(outbox) :
        \A k \in 1..Len(outbox[i].to) :
            \/ outbox[i].to[k] \in 48..57
            \/ outbox[i].to[k] = 43 /\ k = 1

\* What the code gives: the recipient's digits and plus signs, in their
\* order, wherever the plus signs stand.
C23_DigitsAndPlusSigns ==
    \A i \in 1..Len(outbox) :
        LET Kept(c) == c \in 48..57 \/ c = 43
            Other(c) == ~Kept(c)
        IN  /\ SelectSeq(outbox[i].to, Other) = <<>>
            /\ outbox[i].to = SelectSeq(call.message.senderNumber, Kept)

\* "201001@s.whatsapp.net" went to the transport as "201001".
C23_JidActed ==
    /\ Len(outbox) >= 1
    /\ call.message.senderNumber = SenderJid
    /\ outbox[1].to = <<50, 48, 49, 48, 48, 49>>

\* C24: every Message row belongs to exactly one stored session: deleting a
\* session removes its messages, and a webhook event handled while its
\* tenant's session is deleted leaves no row that refers to the deleted
\* session.
C24_Ownership ==
    \A i \in 1..Len(messages) :
        Cardinality({j \in 1..Len(sessions) :
                        sessions[j].id = messages[i].whatsappSessionId}) = 1

\* A session was deleted while a webhook request that had resolved it was
\* about to store its message; the request is answered and the other
\* tenant's message is still stored.
C24_Witness ==
    /\ call.code = 200 /\ call.sessionId = "s1" /\ call.raced = {1}
    /\ pc[1] = "done" /\ resp[1] = 200
    /\ ev[1].event = "messages.received"
    /\ writes[1] = {}
    /\ Len(sessions) = 1
    /\ Len(messages) = 1 /\ messages[1].whatsappSessionId = "s2"

\* No register request is between two of its store calls.
C25_Quiet == \A r \in Registrants : pc[r] \in {"idle", "done"}

\* C25: the Clinic Configuration is 1:1 with the clinic account: once the
\* register calls made so far are answered, also one whose configuration
\* insert failed after its user insert, every User has exactly one
\* ClinicSetting and every ClinicSetting has its User.
C25_OneToOne ==
    C25_Quiet =>
        /\ \A i \in 1..Len(accounts) :
             Cardinality({j \in 1..Len(clinicSetting) :
                             clinicSetting[j].userId = accounts[i].id}) = 1
        /\ \A j \in 1..Len(clinicSetting) :
             \E i \in 1..Len(accounts) : accounts[i].id = clinicSetting[j].userId

\* What the code gives: a User has at most one ClinicSetting, every
\* ClinicSetting has its User, and a User has none only when the configuration
\* insert of its register failed.
C25_AtMostOne ==
    /\ \A i \in 1..Len(accounts) :
         Cardinality({j \in 1..Len(clinicSetting) :
                         clinicSetting[j].userId = accounts[i].id}) <= 1
    /\ \A j \in 1..Len(clinicSetting) :
         \E i \in 1..Len(accounts) : accounts[i].id = clinicSetting[j].userId

\* A register was answered 201 with its User and its ClinicSetting stored.
C25_RegisteredActed ==
    /\ C25_Quiet
    /\ resp[1] = 201
    /\ Len(accounts) = 1 /\ Len(clinicSetting) = 1
    /\ clinicSetting[1].userId = accounts[1].id

\* C28: register keeps emails unique.  A register whose email is found in
\* use is answered 409 and creates no row; a register with email, password
\* and clinic name whose email is not in use, and whose store calls succeed,
\* is answered 201 with a token for the User it created, together with its
\* ClinicSetting; and at most one User has any email in every state, two
\* concurrent registers for the same email included.
C28_UniqueEmails ==
    /\ \A i, j \in 1..Len(accounts) :
         accounts[i].email = accounts[j].email => i = j
    /\ \A r \in Registrants :
         /\ lookup[r] = "found" => pc[r] = "done" /\ resp[r] = 409
         /\ resp[r] = 409 => lookup[r] = "found" /\ writes[r] = {} /\ call[r].token = <<>>
         /\ (pc[r] = "done" /\ lookup[r] = "null" /\ call[r].failed = "none")
              => /\ resp[r] = 201
                 /\ call[r].token = <<[userId |-> sess[r][1].id, signed |-> TRUE]>>
                 /\ sess[r][1].email = ev[r].email
                 /\ Cardinality(writes[r]) = 2
         /\ resp[r] = 201 =>
              \E i \in 1..Len(accounts) :
                  /\ accounts[i].email = ev[r].email
                  /\ call[r].token # <<>>
                  /\ call[r].token[1].userId = accounts[i].id

\* Two registers for the same email both found it unused; one was answered
\* 201 and the other was stopped by the unique index, so one User has it.
C28_Witness ==
    /\ \A r \in Registrants : pc[r] = "done" /\ lookup[r] = "null"
    /\ ev[1].email = ev[2].email
    /\ resp[1] = 201
    /\ call[2].failed = "User_email_key" /\ resp[2] = 500
    /\ Len(accounts) = 1

\* A register for an email in use was answered 409.
C28_WitnessConflict ==
    /\ pc[1] = "done" /\ resp[1] = 409 /\ lookup[1] = "found"
    /\ \E i \in 1..Len(accounts) : accounts[i].email = ev[1].email

\* The request carries no token: no Authorization header, or nothing after
\* its scheme word.
C26_NoToken(r) == ~ev[r].present \/ ev[r].rest = <<>>

\* The request's token verifies: it is a JWT signed with the secret and not
\* expired.
C26_Verifies(r) ==
    /\ ~C26_NoToken(r)
    /\ ev[r].rest[1].jwt /\ ev[r].rest[1].signed /\ ~ev[r].rest[1].expired

C26_WitnessForged ==
    /\ pc[1] = "done" /\ resp[1] = 403 /\ call[1].error = "Invalid token"
    /\ ev[1].rest # <<>> /\ ev[1].rest[1].jwt /\ ~ev[1].rest[1].signed
    /\ \E i \in 1..Len(accounts) : accounts[i].id = ev[1].rest[1].userId


\* C27
\* createSession: when name and phone_number are given and the provider
\* returns success with data, the response is 201 and exactly one session is
\* stored for the caller, with the provider's id as a string sessionId, its
\* api key, its webhook secret and the given phone number; when name or
\* phone_number is missing the response is 400 and the provider was not
\* called; when the provider does not return success with data the response
\* is 500; in both failure cases the table is as it was when the request
\* came.  A rejected create of the row is the store's failure, answered 500.
C27_Responds(r) ==
    /\ pc[r] # "done"
    /\ pc'[r] = "done"
    /\ ev'[r].operation = "createSession"

C27_NothingStored(r) == sessions' = sessions /\ writes'[r] = {}

C27_OneStored(r) ==
    /\ Len(sessions') = Len(sessions) + 1
    /\ SubSeq(sessions', 1, Len(sessions)) = sessions
    /\ LET row == sessions'[Len(sessions')]
       IN  /\ row.userId = ev'[r].userId
           /\ row.sessionId = "7"
           /\ row.apiKey = "key7"
           /\ row.webhookSecret = "sec7"
           /\ row.phoneNumber = ev'[r].body.phone_number
           /\ writes'[r] = {row.id}

C27_Step(r) ==
    C27_Responds(r) =>
        LET body == ev'[r].body
            missing == body.name \in {Undefined, ""} \/ body.phone_number \in {Undefined, ""}
        IN  /\ missing =>
                /\ resp'[r] = 400
                /\ outbox' = outbox
                /\ call'[r].provider = 0
                /\ C27_NothingStored(r)
            /\ (~missing /\ lookup'[r] \in {"throw", "null", "refused", "nodata"}) =>
                /\ resp'[r] = 500
                /\ C27_NothingStored(r)
            /\ (~missing /\ lookup'[r] = "data" /\ call'[r].failed = "none") =>
                /\ resp'[r] = 201
                /\ C27_OneStored(r)
            /\ resp'[r] \in {201, 400, 500}
            /\ resp'[r] # 201 => C27_NothingStored(r)

C27_CreateSession == [][\A r \in Reqs : C27_Step(r)]_vars

C27_Witness ==
    \E r \in Reqs :
        /\ pc[r] = "done"
        /\ ev[r].operation = "createSession"
        /\ resp[r] = 201
        /\ Len(sessions) = 2
        /\ sessions[2].id \in writes[r]
        /\ sessions[2].userId # sessions[1].userId

C27_WitnessMissing ==
    \E r \in Reqs :
        /\ pc[r] = "done"
        /\ ev[r].operation = "createSession"
        /\ resp[r] = 400
        /\ ev[r].body.name = "Front desk"
        /\ ev[r].body.phone_number = ""
        /\ Len(sessions) = 1

C27_WitnessRefused ==
    \E r \in Reqs :
        /\ pc[r] = "done"
        /\ ev[r].operation = "createSession"
        /\ resp[r] = 500
        /\ lookup[r] = "nodata"
        /\ Len(sessions) = 1

\* C29
\* The connection status of a session is an enum: after any sequence of
\* createSession and connectSession calls, and whatever the provider
\* returns, the status of every stored session is one of pending,
\* connecting, connected, disconnected, error.
StatusEnum == {"pending", "connecting", "connected", "disconnected", "error"}

C29_StatusEnum == \A i \in 1..Len(sessions) : sessions[i].status \in StatusEnum

\* What holds: a stored status is the word the provider gave, or the default
\* of the operation when the provider gave none.
C29_StatusFromProvider ==
    \A i \in 1..Len(sessions) :
        sessions[i].status \in (ProviderStatuses \ {Undefined}) \cup {"pending", "connecting"}

C29_DefaultActed ==
    \E r \in Reqs :
        /\ pc[r] = "done"
        /\ ev[r].operation = "connectSession"
        /\ resp[r] = 200
        /\ lookup[r] = "data"
        /\ \E i \in 1..Len(sessions) :
             /\ sessions[i].id \in writes[r]
             /\ sessions[i].status = "connecting"


C31_Awaits == {"create", "sentById", "sentFallback", "update", "send"}

C31_FirstAwait(e) ==
    CASE e.event = "messages.received" -> ReceivedStart(e)
      [] e.event = "message.sent" -> SentStart(e)
      [] e.event = "messages.update" -> UpdateStart(e)
      [] OTHER -> "return"

C31_Step(r) ==
    /\ pc'[r] \in C31_Awaits => resp'[r] = 0
    /\ (/\ pc[r] \notin {"idle", "done"}
        /\ resp'[r] = 200
        /\ lookup'[r] = "found"
        /\ verified'[r] = <<TRUE>>)
       => /\ pc'[r] = "done"
          /\ \/ pc[r] \in C31_Awaits
             \/ pc[r] = "resolve" /\ C31_FirstAwait(ev[r]) = "return"

C31_AckAfterHandler == [][\A r \in Reqs : C31_Step(r)]_vars

C31_Witness ==
    \E r \in Reqs :
        /\ pc[r] = "done" /\ resp[r] = 200
        /\ lookup[r] = "found" /\ verified[r] = <<TRUE>>
        /\ handlers[r] = <<"handleMessagesUpdate">>
        /\ Truthy(ev[r].keyId)
        /\ writes[r] # {}


\* C32
\* Every invocation of handleWebhook terminates with exactly one HTTP
\* response, 400, 200, 403 or 500, on every path, a rejected tenant lookup
\* and a failed handler included: a request that is over has one of these
\* answers, a request under way has none yet and gets one, and an answer is
\* never replaced by another one.
C32_Codes == {400, 200, 403, 500}

C32_Answered(r) == pc[r] = "done" /\ resp[r] \in C32_Codes

C32_OneAnswer(r) ==
    /\ pc[r] = "done" => resp[r] \in C32_Codes
    /\ pc[r] \notin {"idle", "done"} => resp[r] = 0

C32_NotAnsweredAgain(r) ==
    (resp[r] # 0 /\ resp'[r] # resp[r])
        => /\ pc[r] = "done"
           /\ handlers'[r] = <<>>
           /\ lookup'[r] = "none"

C32_ExactlyOneResponse ==
    /\ [](\A r \in Reqs : C32_OneAnswer(r))
    /\ [][\A r \in Reqs : C32_NotAnsweredAgain(r)]_vars
    /\ \A r \in Reqs : (pc[r] \notin {"idle", "done"}) ~> C32_Answered(r)

C32_Witness ==
    \E r \in Reqs :
        /\ pc[r] = "done" /\ resp[r] = 500
        /\ lookup[r] = "rejected"
        /\ handlers[r] = <<>>

C32_WitnessHandlerFailed ==
    \E r \in Reqs :
        /\ pc[r] = "done" /\ resp[r] = 200
        /\ lookup[r] = "found"
        /\ handlers[r] = <<"handleMessagesReceived">>
        /\ ~ev[r].data


\* C33
\* One event, at most one record: a single message.sent or messages.update
\* event changes the delivery status of at most one Message row of the
\* tenant; an event whose key carries no id changes no row.
C33_StatusEvent(r) ==
    handlers[r] \in {<<"handleMessageSent">>, <<"handleMessagesUpdate">>}

C33_AtMostOneRecord ==
    \A r \in Reqs :
        C33_StatusEvent(r)
            => /\ Cardinality(writes[r]) <= 1
               /\ Falsy(ev[r].keyId) => writes[r] = {}

\* What holds: a messages.update event whose key carries an id changes at
\* most the row of that id.
C33_AtMostOneWithId ==
    \A r \in Reqs :
        (handlers[r] = <<"handleMessagesUpdate">> /\ Truthy(ev[r].keyId))
            => writes[r] \subseteq {ev[r].keyId}

C33_WithIdActed ==
    \E r \in Reqs :
        /\ pc[r] = "done" /\ resp[r] = 200
        /\ handlers[r] = <<"handleMessagesUpdate">>
        /\ ev[r].keyId = "m2"
        /\ writes[r] = {"m2"}
        /\ Len(messages) = 2
        /\ messages[1].whatsappSessionId = messages[2].whatsappSessionId
        /\ messages[1].status = "received"


\* C34
\* Tenant isolation: an event resolved to tenant A never creates, modifies
\* or matches a Message row owned by another tenant B, under any
\* interleaving of events for A and B: in every step of a request the rows
\* of the other sessions stay as they are, a row that is created belongs to
\* the session the request resolved, no row changes its owner, and the rows
\* the request matched belong to its session.
C34_Owned(table, sessionId) ==
    {table[i].id : i \in {j \in 1..Len(table) : table[j].whatsappSessionId = sessionId}}

C34_Step(r) ==
    (pc[r] \in {"create", "sentById", "sentFallback", "update"})
        => LET own == sess[r][1].id IN
           /\ Len(messages') >= Len(messages)
           /\ \A i \in 1..Len(messages) :
                /\ messages'[i].whatsappSessionId = messages[i].whatsappSessionId
                /\ messages[i].whatsappSessionId # own => messages'[i] = messages[i]
           /\ \A i \in (Len(messages) + 1)..Len(messages') :
                messages'[i].whatsappSessionId = own
           /\ writes'[r] \subseteq C34_Owned(messages', own)

C34_TenantIsolation ==
    [][\A r \in Racers : pc'[r] # pc[r] => C34_Step(r)]_vars

\* An event of one tenant without key id was applied while the table held a
\* row of the other tenant, and an event of the other tenant was in flight.
C34_Witness ==
    \E r \in Racers, q \in Racers :
        /\ r # q
        /\ pc[r] = "done" /\ resp[r] = 200
        /\ handlers[r] = <<"handleMessagesUpdate">>
        /\ ev[r].keyId = Undefined
        /\ writes[r] # {}
        /\ sess[q] # <<>> /\ sess[q][1].id # sess[r][1].id
        /\ writes[q] # {}
        /\ \E i \in 1..Len(messages) :
             /\ messages[i].whatsappSessionId # sess[r][1].id
             /\ messages[i].status # "read"


\* C35
\* Status events change only the delivery status: no step of a message.sent
\* or messages.update event changes the owning session, sender, recipient,
\* content, direction or locale of a Message row, and none creates or
\* deletes a row.
C35_StatusStep(r) ==
    /\ pc[r] \in {"sentById", "sentFallback", "update"}
    /\ pc'[r] # pc[r]

C35_OnlyStatus ==
    [][\A r \in Racers :
          C35_StatusStep(r)
            => /\ Len(messages') = Len(messages)
               /\ \A i \in 1..Len(messages) :
                    /\ messages'[i].id = messages[i].id
                    /\ messages'[i].whatsappSessionId = messages[i].whatsappSessionId
                    /\ messages'[i].senderNumber = messages[i].senderNumber
                    /\ messages'[i].recipientNumber = messages[i].recipientNumber
                    /\ messages'[i].content = messages[i].content
                    /\ messages'[i].direction = messages[i].direction
                    /\ messages'[i].languageUsed = messages[i].languageUsed]_vars

\* A message.sent event reached the seeded row through its content fallback
\* and the row is now sent.
C35_Witness ==
    \E r \in Racers :
        /\ pc[r] = "done" /\ resp[r] = 200
        /\ handlers[r] = <<"handleMessageSent">>
        /\ ev[r].keyId = "m2"
        /\ writes[r] = {"m1"}
        /\ messages[1].status = "sent"
        /\ messages[1].content = "hello"


\* C36
\* The locale is decided once per inbound message: the locale stored on the
\* Message row of an inbound message (languageUsed) equals the locale
\* selected for composing its reply, for every language preference and text.
C36_LocaleDecidedOnce ==
    \A i \in 1..Len(ret) :
        ret[i].language # "none" => ret[i].language = LanguageUsed(call.session)

\* What holds: the two agree when the text has a character of the Arabic
\* block and the preference is ar, and when the preference is neither ar nor
\* bilingual.
C36_AgreeOnArabic ==
    \A i \in 1..Len(ret) :
        (/\ ret[i].language # "none"
         /\ \/ call.session.user.languagePreference = "ar" /\ C18_ArabicText
            \/ call.session.user.languagePreference \notin {"ar", "bilingual"})
        => ret[i].language = LanguageUsed(call.session)

C36_AgreeActed ==
    /\ Len(ret) >= 1
    /\ call.session.user.languagePreference = "ar"
    /\ C18_ArabicText
    /\ ret[1].language = "ar"
    /\ LanguageUsed(call.session) = "ar"
    /\ ret[1].send


\* C37
\* Custom keyword locale fallback: when a keyword rule matches, the reply is
\* the rule's Arabic response if the locale is Arabic and the rule has one,
\* and the rule's English response in every other case; when several rules
\* match, the first rule in configuration order answers.
C37_FirstRule ==
    call.session.clinicSettings.customKeywords[
        CHOOSE k \in C16_Rules : \A j \in C16_Rules : k <= j]

C37_HasArabic(rule) == rule.responseAr \notin {Undefined, ""}

C37_KeywordLocale ==
    \A i \in 1..Len(ret) :
        C16_Rules # {} =>
            /\ ret[i].reply.ok
            /\ (ret[i].language = "ar" /\ C37_HasArabic(C37_FirstRule))
                 => ret[i].reply.lines = <<C37_FirstRule.responseAr>>
            /\ (ret[i].language = "ar" /\ ~C37_HasArabic(C37_FirstRule))
                 => ret[i].reply.lines = <<C37_FirstRule.responseEn>>
            /\ ret[i].language # "ar"
                 => ret[i].reply.lines = <<C37_FirstRule.responseEn>>

\* The locale is Arabic and the rule that matched has no Arabic response:
\* the English one is the reply.
C37_Witness ==
    /\ Len(ret) >= 1
    /\ ret[1].language = "ar"
    /\ C16_Rules = {1}
    /\ C37_FirstRule = InsuranceRule
    /\ C18_ArabicText
    /\ ret[1].reply.lines = <<"We accept most insurance plans.">>

\* Two rules match and the first in configuration order answers, in Arabic.
C37_WitnessFirst ==
    /\ Len(ret) >= 1
    /\ ret[1].language = "ar"
    /\ C16_Rules = {1, 2}
    /\ C37_FirstRule = PlansRule
    /\ ret[1].reply.lines = <<"[ar] See our plans.">>

\* The locale is English and the rule has an Arabic response.
C37_WitnessEnglish ==
    /\ Len(ret) >= 1
    /\ ret[1].language = "en"
    /\ C16_Rules # {}
    /\ C37_FirstRule = PriceRule
    /\ ret[1].reply.lines = <<"Ask the front desk for prices.">>


\* C38
\* Inbound event without text: a verified messages.received event that lacks
\* key or message, or whose message carries no conversation text, extended
\* text or image or document caption, creates no Message row, triggers no
\* reply and is acknowledged with 200.
C38_NoText(e) ==
    /\ e.conversation \in {Undefined, ""}
    /\ e.extendedText \in {Undefined, ""}
    /\ e.imageCaption \in {Undefined, ""}
    /\ e.documentCaption \in {Undefined, ""}

C38_Skipped(r) ==
    /\ lookup[r] = "found"
    /\ verified[r] = <<TRUE>>
    /\ ev[r].event = "messages.received"
    /\ ~ev[r].key \/ ~ev[r].message \/ C38_NoText(ev[r])

C38_NoTextNoRecord ==
    \A r \in Reqs :
        C38_Skipped(r)
            => /\ pc[r] = "done"
               /\ resp[r] = 200
               /\ writes[r] = {}
               /\ SentBy(r) = {}

\* A message with key and message but an empty text was acknowledged while
\* the table holds the row of an earlier message.
C38_Witness ==
    \E r \in Reqs :
        /\ C38_Skipped(r)
        /\ ev[r].key /\ ev[r].message
        /\ ev[r].conversation = ""
        /\ resp[r] = 200
        /\ Len(messages) = 1

C38_WitnessNoMessage ==
    \E r \in Reqs :
        /\ C38_Skipped(r)
        /\ ev[r].key /\ ~ev[r].message
        /\ resp[r] = 200

\* A message whose only text is the caption of an image is stored.
C38_WitnessCaption ==
    \E r \in Reqs :
        /\ pc[r] = "done" /\ resp[r] = 200
        /\ ev[r].imageCaption = "hello"
        /\ ev[r].conversation = Undefined
        /\ writes[r] # {}
        /\ messages[Len(messages)].content = "hello"


\* C39
\* Session ownership: getAllSessions returns only sessions owned by the
\* authenticated user, and getSession, deleteSession, connectSession and
\* getQRCode called on a session owned by another user respond 404, make no
\* provider call with that session's credential, and leave that session and
\* its messages unchanged.  The store answering the lookup is assumed.
C39_Foreign(r) ==
    /\ ev[r].operation \in {"getSession", "deleteSession", "connectSession", "getQRCode"}
    /\ \E i \in 1..Len(sessions) :
         /\ sessions[i].id = ev[r].sessionId
         /\ sessions[i].userId # ev[r].userId

C39_OnlyOwn(r) ==
    (ev[r].operation = "getAllSessions" /\ pc[r] = "done")
        => \A i \in 1..Len(ret) : ret[i].userId = ev[r].userId

C39_NoAccess(r) ==
    C39_Foreign(r)
        => /\ call[r].provider = 0
           /\ writes[r] = {}
           /\ pc[r] \in {"getFind", "deleteFind", "connectFind", "qrFind", "done"}

C39_Untouched(r) ==
    C39_Foreign(r)'
        => /\ sessions' = sessions
           /\ messages' = messages
           /\ outbox' = outbox
           /\ client' = client

C39_Ownership ==
    /\ [](\A r \in Reqs :
            /\ C39_OnlyOwn(r)
            /\ C39_NoAccess(r)
            /\ (C39_Foreign(r) /\ pc[r] = "done" /\ call[r].failed = "none")
                 => resp[r] = 404)
    /\ [][\A r \in Reqs : C39_Untouched(r)]_vars

\* What holds: the same with 400 in the place of 404 for getSession, which
\* refuses a session id that does not begin with a digit before it looks the
\* session up.
C39_OwnershipRefused ==
    /\ [](\A r \in Reqs :
            /\ C39_OnlyOwn(r)
            /\ C39_NoAccess(r)
            /\ (C39_Foreign(r) /\ pc[r] = "done" /\ call[r].failed = "none")
                 => resp[r] = IF /\ ev[r].operation = "getSession"
                                 /\ ParseInt(ev[r].sessionId) = <<>>
                                THEN 400 ELSE 404)
    /\ [][\A r \in Reqs : C39_Untouched(r)]_vars

\* A user asked to delete the session of the other user, got 404, and the
\* session and its message are stored as before.
C39_RefusedActed ==
    \E r \in Reqs :
        /\ C39_Foreign(r)
        /\ ev[r].operation = "deleteSession"
        /\ pc[r] = "done" /\ resp[r] = 404
        /\ Len(sessions) = 2 /\ Len(messages) = 2
        /\ Len(outbox) >= 1

C39_ListActed ==
    \E r \in Reqs :
        /\ ev[r].operation = "getAllSessions"
        /\ pc[r] = "done" /\ resp[r] = 200
        /\ Len(ret) = 1
        /\ Len(sessions) = 2

====
